---- MODULE Spec2Model ----
(***************************************************************************)
(* Renewal-opportunity dashboard (src/renewalOppUpdate.py, src/renewup.py). *)
(* One run of the script is modelled: the CRM fetch                        *)
(* (connect_to_salesforce), the normalisation of every returned record,    *)
(* and the sections the script renders from the resulting DataFrame.       *)
(*                                                                         *)
(* Conventions                                                             *)
(*  - A DataFrame is a bag of rows: every consumer in the source is a      *)
(*    groupby/size, a filter or a length, none of which reads row order.   *)
(*  - Percentages and win rates are integers in tenths of a percent        *)
(*    (50.0 is 500), rounded as numpy rounds (to nearest, ties to even).   *)
(*  - A JSON null is Null, an absent key is Missing.                       *)
(***************************************************************************)
EXTENDS Integers, FiniteSets, Sequences, Bags, TLC

Null == "<null>"
Missing == "<missing>"

(* ------------------------------ bounds --------------------------------- *)
\* records the opportunity query returns in one run of the full script
MaxRecords == 3
\* rows of a DataFrame handed directly to the render
MaxRows == 5

(* --------------------------- the two scripts --------------------------- *)
Variants == {"renewalOppUpdate", "renewup"}

(* ----------------------------- Classifier ------------------------------ *)
OpenStages ==
    {"New", "Information Gathering", "Rating", "Proposal Generation",
     "Decision Pending", "Pre-Bind Review", "Quote to Bind", "Binding",
     "Billing", "Post-Binding"}

\* the stages dictionary, as stage name -> category
get_stage_metadata ==
    [s \in OpenStages \cup {"Closed Won", "Closed Lost"} |->
        IF s = "Closed Won" THEN "Won"
        ELSE IF s = "Closed Lost" THEN "Lost"
        ELSE "Open"]

\* the lookup with "Billing" dropped from the table and "Won" as default
StageCategoryBillingWon(stage_name) ==
    IF stage_name \in DOMAIN get_stage_metadata /\ stage_name # "Billing"
    THEN get_stage_metadata[stage_name]
    ELSE "Won"

\* stage_metadata.get(stage_name, {"category": "Unknown"})["category"]
StageCategory(stage_name) ==
    IF stage_name \in DOMAIN get_stage_metadata
    THEN get_stage_metadata[stage_name]
    ELSE "Unknown"

CommercialTypes ==
    {"Bond", "Builders Risk/Installation - CL", "Bumbershoot", "Business Owners",
     "Commercial Auto", "Commercial Package", "Commercial Property",
     "Commercial Umbrella", "Crime", "Cyber & Privacy Liability",
     "Directors & Officers", "Dwelling Fire CL", "Errors and Omissions",
     "Flood - CL", "General Liability", "Inland Marine CL", "Marine Package",
     "Surety", "Workers Compensation", "Liquor Liability", "Wind Only - CL"}
HomeownersTypes ==
    {"Builders Risk/Installation - PL", "Dwelling Fire - PL", "Homeowners",
     "Mobile Homeowners", "Wind Only - PL"}
MarineTypes == {"Charter Watercraft", "Watercraft", "Yacht"}
SpecialtyTypes ==
    {"Golf Cart", "Inland Marine PL", "Motorcycle/ATV", "Motorhome",
     "Recreational Vehicle", "Travel Trailer"}
MappedTypes ==
    CommercialTypes \cup {"Employment Practices Liability"} \cup HomeownersTypes
    \cup MarineTypes \cup {"Flood - PL"} \cup SpecialtyTypes
    \cup {"Life", "Personal Auto", "Personal Liability", "Umbrella"}

\* the type_categories dictionary (renewup.py only)
get_business_type_categories ==
    [t \in MappedTypes |->
        IF t \in CommercialTypes THEN "Commercial"
        ELSE IF t = "Employment Practices Liability" THEN "Commercial;"
        ELSE IF t \in HomeownersTypes THEN "Homeowners"
        ELSE IF t \in MarineTypes THEN "Marine"
        ELSE IF t = "Flood - PL" THEN "Flood"
        ELSE IF t \in SpecialtyTypes THEN "Specialty Lines"
        ELSE IF t = "Life" THEN "Life"
        ELSE IF t = "Personal Auto" THEN "Auto"
        ELSE IF t = "Personal Liability" THEN "CPL/Excess CPL"
        ELSE "Umbrella"]

\* type_categories.get(business_type, "Other")
BusinessTypeCategory(business_type) ==
    IF business_type \in DOMAIN get_business_type_categories
    THEN get_business_type_categories[business_type]
    ELSE "Other"

get_core_lines == {"Auto", "Flood", "Homeowners", "Umbrella"}

\* the business types whose name contains "marine", compared case-insensitively
ContainsMarine(business_type) ==
    business_type \in {"Inland Marine CL", "Marine Package", "Inland Marine PL"}

(* --------------------------- CRM responses ----------------------------- *)
\* the manager lookup both scripts build before the opportunity query:
\* account id (renewalOppUpdate) or producer id (renewup) -> display name
ManagerLookup == [i \in {"id-A", "id-B"} |-> IF i = "id-A" THEN "A" ELSE "B"]
NoLookup == [i \in {} |-> ""]

\* a raw Opportunity record: every field is a value, Null or Missing;
\* Account is the related object, here "obj" when the relationship resolves,
\* and Account_Manager__c is the field read through it
RawRecord(stage, type, accountId, account, managerId, closeDate) ==
    [StageName |-> stage, New_Business_or_Renewal__c |-> "Personal Lines - Renewal",
     Type |-> type, AccountId |-> accountId, Account |-> account,
     Account_Manager__c |-> managerId, CloseDate |-> closeDate]

\* every shape of record the single-record specification normalises
AllStageNames == DOMAIN get_stage_metadata \cup {"Prospecting", Null, Missing}
AllTypes == MappedTypes \cup {"Flood", "Pet Insurance", Null, Missing}
AllAccountIds == {"id-A", Null, Missing}
AllAccounts == {"obj", Null, Missing}
AllManagerIds == {"id-A", "id-unlisted", Null}
AllCloseDates == {"2025-03-14", Null, Missing}
AllRecords ==
    {RawRecord(s, t, i, a, m, d) :
        s \in AllStageNames, t \in AllTypes, i \in AllAccountIds,
        a \in AllAccounts, m \in AllManagerIds, d \in AllCloseDates}

\* the records the CRM may return in a run of the full script
CrmStageNames == {"Closed Won", "Closed Lost", "New", "Prospecting"}
CrmTypes == {"Homeowners", "Marine Package"}
CrmOwners == {"id-A"}
CrmAccounts == {"obj", Null}
CrmCloseDates == {"2025-03-14"}
CrmRecords ==
    {RawRecord(s, t, o, a, o, d) :
        s \in CrmStageNames, t \in CrmTypes, o \in CrmOwners,
        a \in CrmAccounts, d \in CrmCloseDates}

(* -------------------------- Record Normalizer -------------------------- *)
\* the body of the loop over the query's records raises (KeyError on a
\* subscripted key that is absent, AttributeError on None.get)
NormalizeRaises(v, record) ==
    \/ record.StageName = Missing
    \/ record.New_Business_or_Renewal__c = Missing
    \/ record.CloseDate = Missing
    \/ record.Account = Null
    \/ v = "renewalOppUpdate" /\ record.AccountId = Missing

\* dict.get(key, default) of the manager lookup
LookupGet(map, key) ==
    IF key \in DOMAIN map THEN map[key] ELSE "Not Assigned"

\* record.get('Type', 'Not Specified')
BusinessTypeOf(record) ==
    IF record.Type = Missing THEN "Not Specified" ELSE record.Type

\* the id the manager is looked up by
OwnerKey(v, record) ==
    IF v = "renewalOppUpdate" THEN record.AccountId
    ELSE IF record.Account = Missing THEN Null
    ELSE record.Account_Manager__c

\* the dictionary appended to data for one record
Normalize(v, map, record) ==
    [StageName |-> record.StageName,
     StatusCategory |-> StageCategory(record.StageName),
     RenewalType |-> record.New_Business_or_Renewal__c,
     BusinessType |-> BusinessTypeOf(record),
     BusinessTypeCategory |->
        IF v = "renewup" THEN BusinessTypeCategory(BusinessTypeOf(record))
        ELSE Missing,
     AccountManager |-> LookupGet(map, OwnerKey(v, record)),
     CloseDate |-> record.CloseDate]

(* ------------------------- Aggregation Engine -------------------------- *)
\* df[condition], keep being the rows of B that satisfy the condition
Filter(B, keep) == [r \in keep \cap DOMAIN B |-> B[r]]

\* len(df)
Len0(B) == BagCardinality(B)

\* numpy's round of n/d to an integer: to nearest, ties to even
RoundTenths(n, d) ==
    LET q == n \div d
        r == n % d
    IN  IF 2 * r < d THEN q
        ELSE IF 2 * r > d THEN q + 1
        ELSE IF q % 2 = 0 THEN q ELSE q + 1

\* pivot['Total'] = pivot.sum(axis=1): the sum of every status column
PivotTotal(won, lost, open, unknown) == won + lost + open + unknown

\* (pivot[category] / pivot['Total'] * 100).round(1), in tenths
Pct(count, total) == RoundTenths(1000 * count, total)

\* the win rate with fillna(100) for the group without closed opportunities
WinRateFillHundred(won, lost) ==
    IF won + lost = 0 THEN 1000 ELSE RoundTenths(1000 * won, won + lost)

\* the win rate rounded up instead of to nearest
WinRateRoundUp(won, lost) ==
    IF won + lost = 0 THEN 0 ELSE (1000 * won + won + lost - 1) \div (won + lost)

\* (pivot['Won'] / closed_ops * 100).fillna(0).round(1), in tenths
WinRate(won, lost) ==
    IF won + lost = 0 THEN 0 ELSE RoundTenths(1000 * won, won + lost)

\* one row of a status pivot: the counts of the group's rows by status
\* (fillna(0) and the "ensure all categories exist" loop give 0 to a
\* status without rows), then the derived columns the view computes:
\* "Total", "Total_Closed", "Win_Rate", "Pct" (the three percentages)
PivotRow(G, cols) ==
    LET won == Len0(Filter(G, {r \in DOMAIN G : r.StatusCategory = "Won"}))
        lost == Len0(Filter(G, {r \in DOMAIN G : r.StatusCategory = "Lost"}))
        open == Len0(Filter(G, {r \in DOMAIN G : r.StatusCategory = "Open"}))
        unknown == Len0(Filter(G, {r \in DOMAIN G : r.StatusCategory = "Unknown"}))
        total == PivotTotal(won, lost, open, unknown)
        none == [c \in {} |-> 0]
    IN  [Won |-> won, Lost |-> lost, Open |-> open, Unknown |-> unknown]
        @@ (IF "Total" \in cols THEN [Total |-> total] ELSE none)
        @@ (IF "Total_Closed" \in cols THEN [Total_Closed |-> won + lost] ELSE none)
        @@ (IF "Win_Rate" \in cols THEN [Win_Rate |-> WinRate(won, lost)] ELSE none)
        @@ (IF "Pct" \in cols
            THEN [Won_Pct |-> Pct(won, total), Lost_Pct |-> Pct(lost, total),
                  Open_Pct |-> Pct(open, total)]
            ELSE none)

\* df.groupby([key, 'StatusCategory']).size() pivoted on key; groupby
\* drops the rows whose key is None
StatusPivot(B, key, cols) ==
    [g \in {r[key] : r \in DOMAIN B} \ {Null} |->
        PivotRow(Filter(B, {r \in DOMAIN B : r[key] = g}), cols)]

\* the derived columns of the volume pivots, with `if show_percentages`
VolumeColumns(pct) == {"Total"} \cup (IF pct THEN {"Pct"} ELSE {})
ManagerColumns(pct) == {"Total", "Win_Rate"} \cup (IF pct THEN {"Pct"} ELSE {})

NoPivot == [g \in {} |-> 0]

\* the minimum number of closed opportunities of each win-rate view
MinClosedAM == 5
MinClosedCore == 3
MinClosedCategory == 5

\* the filter with > in place of >=
MeetsMinimumStrict(closed, threshold) == closed > threshold

\* (pivot['Won'] + pivot['Lost']) >= threshold
MeetsMinimum(closed, threshold) == closed >= threshold

\* pivot[(pivot['Won'] + pivot['Lost']) >= threshold]
WinRateFilter(pivot, threshold) ==
    [g \in {k \in DOMAIN pivot :
                MeetsMinimum(pivot[k].Won + pivot[k].Lost, threshold)} |->
        pivot[g]]

(* ------------------------------ row order ------------------------------ *)
\* every group key of the model in Python's string order, the order of a
\* pivot's index: groupby and pivot sort the group keys
LexOrder ==
    <<"A", "Auto", "B", "Bond", "Builders Risk/Installation - CL",
      "Builders Risk/Installation - PL", "Bumbershoot", "Business Owners",
      "CPL/Excess CPL", "Charter Watercraft", "Commercial", "Commercial Auto",
      "Commercial Package", "Commercial Property", "Commercial Umbrella",
      "Commercial;", "Crime", "Cyber & Privacy Liability",
      "Directors & Officers", "Dwelling Fire - PL", "Dwelling Fire CL",
      "Employment Practices Liability", "Errors and Omissions", "Flood",
      "Flood - CL", "Flood - PL", "General Liability", "Golf Cart",
      "Homeowners", "Inland Marine CL", "Inland Marine PL", "Life",
      "Liquor Liability", "M01", "M02", "M03", "M04", "M05", "M06", "M07",
      "M08", "M09", "M10", "M11", "M12", "M13", "M14", "M15", "M16", "M17",
      "Marine", "Marine Package", "Mobile Homeowners", "Motorcycle/ATV",
      "Motorhome", "Not Assigned", "Not Specified", "Other", "Personal Auto",
      "Personal Liability", "Pet Insurance", "Recreational Vehicle",
      "Specialty Lines", "Surety", "Travel Trailer", "Umbrella", "Watercraft",
      "Wind Only - CL", "Wind Only - PL", "Workers Compensation", "Yacht">>

LexRank == [k \in {LexOrder[i] : i \in DOMAIN LexOrder} |->
               CHOOSE i \in DOMAIN LexOrder : LexOrder[i] = k]

\* g sorts before h
LexLess(g, h) == LexRank[g] < LexRank[h]

Range(seq) == {seq[i] : i \in DOMAIN seq}

RECURSIVE LexSorted(_)
\* the index of a pivot that was never sorted: the group keys ascending
LexSorted(S) ==
    IF S = {} THEN <<>>
    ELSE LET first == CHOOSE g \in S : \A h \in S \ {g} : LexLess(g, h)
         IN  <<first>> \o LexSorted(S \ {first})

RECURSIVE SortOutcomes(_, _, _)
\* pivot.sort_values(col, ascending=False) over the rows S: the default
\* kind is quicksort, which orders by the column and promises nothing about
\* rows that compare equal, so every order of the tied rows is an outcome
SortOutcomes(pivot, col, S) ==
    IF S = {} THEN {<<>>}
    ELSE LET top == {g \in S : \A h \in S : pivot[h][col] <= pivot[g][col]}
         IN  UNION {{<<g>> \o rest : rest \in SortOutcomes(pivot, col, S \ {g})} :
                        g \in top}

\* the sizes of the chart subsets
TopManagers == 10
TopBusinessTypes == 15
\* the managers and lines of business of the combined heatmaps
TopCombined == 5

\* head(n) keeping one row too few
HeadRowsShort(seq, n) ==
    SubSeq(seq, 1, IF Len(seq) < n THEN Len(seq) ELSE n - 1)

\* pivot.head(n).index.tolist()
HeadRows(seq, n) == SubSeq(seq, 1, IF Len(seq) < n THEN Len(seq) ELSE n)

(* ------------------------------ calendar ------------------------------- *)
\* pd.to_datetime of the close dates the model uses: the text parsed into
\* its year, month and day
to_datetime ==
    [s \in {"2024-12-30", "2025-01-01", "2025-03-14", "2025-03-16"} |->
        IF s = "2024-12-30" THEN [year |-> 2024, month |-> 12, day |-> 30]
        ELSE IF s = "2025-01-01" THEN [year |-> 2025, month |-> 1, day |-> 1]
        ELSE IF s = "2025-03-14" THEN [year |-> 2025, month |-> 3, day |-> 14]
        ELSE [year |-> 2025, month |-> 3, day |-> 16]]

IsLeap(y) == y % 4 = 0 /\ (y % 100 # 0 \/ y % 400 = 0)

DaysInMonth(y, m) ==
    IF m = 2 THEN (IF IsLeap(y) THEN 29 ELSE 28)
    ELSE IF m \in {4, 6, 9, 11} THEN 30 ELSE 31

RECURSIVE DaysBeforeMonth(_, _)
DaysBeforeMonth(y, m) ==
    IF m = 1 THEN 0 ELSE DaysBeforeMonth(y, m - 1) + DaysInMonth(y, m - 1)

\* the proleptic Gregorian ordinal of a date: 1 is 0001-01-01, a Monday
ToOrdinal(y, m, d) ==
    LET p == y - 1
    IN  365 * p + (p \div 4) - (p \div 100) + (p \div 400) + DaysBeforeMonth(y, m) + d

\* the day of the week, Monday 0 .. Sunday 6
Weekday(ordinal) == (ordinal + 6) % 7

\* strftime('%U'): the week of the year with Sunday as its first day; the
\* days of the year before its first Sunday are in week 0
WeekOfYearSunday(y, m, d) ==
    LET ordinal == ToOrdinal(y, m, d)
        yday == ordinal - ToOrdinal(y, 1, 1)
        wday == (Weekday(ordinal) + 1) % 7
    IN  (yday + 7 - wday) \div 7

\* the ISO week a date is in, as the number of the Monday that starts it:
\* two dates are in the same ISO year and ISO week exactly when these agree
IsoWeekStart(y, m, d) ==
    LET ordinal == ToOrdinal(y, m, d) IN ordinal - Weekday(ordinal)

\* today = datetime.datetime.today(), on one day of the model's calendar
Today == [year |-> 2025, month |-> 3, day |-> 20]
TodayOrdinal == ToOrdinal(Today.year, Today.month, Today.day)

\* a start or end of the date range: the day, and whether the value is a
\* datetime.datetime (the predefined periods compute from today) or a
\* datetime.date (st.date_input, and .date() of the first of January)
DateValue(ordinal, isDatetime) == [ordinal |-> ordinal, datetime |-> isDatetime]

\* the sidebar's date range: the four predefined periods
PredefinedRange(time_period) ==
    IF time_period = "Last 7 Days"
    THEN [start_date |-> DateValue(TodayOrdinal - 7, TRUE),
          end_date |-> DateValue(TodayOrdinal, TRUE)]
    ELSE IF time_period = "Last 30 Days"
    THEN [start_date |-> DateValue(TodayOrdinal - 30, TRUE),
          end_date |-> DateValue(TodayOrdinal, TRUE)]
    ELSE IF time_period = "Last Quarter"
    THEN [start_date |-> DateValue(TodayOrdinal - 90, TRUE),
          end_date |-> DateValue(TodayOrdinal, TRUE)]
    ELSE [start_date |-> DateValue(ToOrdinal(Today.year, 1, 1), FALSE),
          end_date |-> DateValue(TodayOrdinal, TRUE)]

\* the two date inputs taken as entered
CustomRangeUnchecked(startInput, endInput) ==
    [start_date |-> DateValue(startInput, FALSE),
     end_date |-> DateValue(endInput, FALSE)]

\* the custom range of two date inputs, swapped when start is after end
CustomRange(startInput, endInput) ==
    IF startInput > endInput
    THEN [start_date |-> DateValue(endInput, FALSE),
          end_date |-> DateValue(startInput, FALSE)]
    ELSE [start_date |-> DateValue(startInput, FALSE),
          end_date |-> DateValue(endInput, FALSE)]

\* the selectbox's index=1: "Last 30 Days"
DefaultRange == PredefinedRange("Last 30 Days")

\* the options of the selectbox
TimePeriods == {"Last 7 Days", "Last 30 Days", "Last Quarter", "Year to Date"}

\* the days the operator may enter in the two date inputs (max_value=today)
CustomInputs ==
    {ToOrdinal(2024, 12, 30), ToOrdinal(2025, 1, 1), ToOrdinal(2025, 3, 14),
     TodayOrdinal}

\* every date range a fetch of the model is made with
SidebarRanges ==
    {PredefinedRange(p) : p \in TimePeriods}
    \cup {CustomRange(a, b) : a, b \in CustomInputs}

\* end_date - start_date raises TypeError between a datetime and a date
DateDiffRaises(range) == range.start_date.datetime # range.end_date.datetime

\* (end_date - start_date).days
DateDiff(range) == range.end_date.ordinal - range.start_date.ordinal

(* ------------------------- the opportunity query ----------------------- *)
\* the calendar year and month an ordinal falls in
YearOf(ordinal) ==
    CHOOSE y \in 2023..2026 :
        ToOrdinal(y, 1, 1) <= ordinal /\ ordinal < ToOrdinal(y + 1, 1, 1)
MonthOfYear(y, ordinal) ==
    CHOOSE m \in 1..12 :
        /\ ToOrdinal(y, m, 1) <= ordinal
        /\ ordinal < ToOrdinal(y, m, 1) + DaysInMonth(y, m)

\* value.strftime('%Y-%m-%d') of a date or a datetime: the text of its
\* calendar day, held as year, month and day
Strftime(value) ==
    LET y == YearOf(value.ordinal)
        m == MonthOfYear(y, value.ordinal)
    IN  [year |-> y, month |-> m, day |-> value.ordinal - ToOrdinal(y, m, 1) + 1]

\* date_filter: start_date and end_date are never falsy, so the clause
\* "AND CloseDate >= start_date_str AND CloseDate <= end_date_str" is
\* always added
DateFilter(range) ==
    [start_date_str |-> Strftime(range.start_date),
     end_date_str |-> Strftime(range.end_date)]

\* the server's comparison of two calendar days
DayLeq(a, b) ==
    \/ a.year < b.year
    \/ a.year = b.year /\ a.month < b.month
    \/ a.year = b.year /\ a.month = b.month /\ a.day <= b.day

\* the renewal types of the IN list
RenewalTypes == {"Personal Lines - Renewal", "Commercial Lines - Renewal"}

\* the WHERE clause without the lower bound of the date filter
WhereClauseNoStart(opportunity, date_filter) ==
    /\ opportunity.New_Business_or_Renewal__c \in RenewalTypes
    /\ opportunity.CloseDate \in DOMAIN to_datetime
    /\ DayLeq(to_datetime[opportunity.CloseDate], date_filter.end_date_str)

\* the WHERE clause of the opportunity query as the server evaluates it: a
\* comparison with a null CloseDate is false
WhereClause(opportunity, date_filter) ==
    /\ opportunity.New_Business_or_Renewal__c \in RenewalTypes
    /\ opportunity.CloseDate \in DOMAIN to_datetime
    /\ DayLeq(date_filter.start_date_str, to_datetime[opportunity.CloseDate])
    /\ DayLeq(to_datetime[opportunity.CloseDate], date_filter.end_date_str)

\* the opportunities the CRM holds: those of CrmRecords, closed in the last
\* 30 days, and others closed earlier, without close date, or not renewals
EarlierCloseDates == {"2024-12-30", "2025-01-01"}
Opportunities ==
    CrmRecords
    \cup {RawRecord("Closed Won", "Homeowners", "id-A", "obj", "id-A", d) :
            d \in EarlierCloseDates \cup {Null}}
    \cup {[RawRecord("New", "Homeowners", "id-A", "obj", "id-A", d)
            EXCEPT !.New_Business_or_Renewal__c = "Commercial Lines - Renewal"] :
            d \in EarlierCloseDates}
    \cup {[RawRecord("New", "Homeowners", "id-A", "obj", "id-A", d)
            EXCEPT !.New_Business_or_Renewal__c = "Personal Lines - New Business"] :
            d \in EarlierCloseDates \cup CrmCloseDates}

\* the server's answer to the opportunity query of each date range
QueryResponses ==
    [range \in SidebarRanges |->
        LET date_filter == DateFilter(range)
        IN  {o \in Opportunities : WhereClause(o, date_filter)}]

\* sf.query_all(opportunity_query)['records']
QueryAll(range) == QueryResponses[range]

(* -------------------------- Workload Allocator ------------------------- *)
\* the granularity with the day threshold exclusive
TimeLabelDayExclusive(date_diff) ==
    IF date_diff <= 31
    THEN (IF date_diff < 7 THEN "Day" ELSE "Week")
    ELSE IF date_diff <= 365 THEN "Month" ELSE "Quarter"

\* time_label, chosen once from the span of the date range
TimeLabel(date_diff) ==
    IF date_diff <= 31
    THEN (IF date_diff <= 7 THEN "Day" ELSE "Week")
    ELSE IF date_diff <= 365 THEN "Month" ELSE "Quarter"

\* the TimeGroup column: the close date formatted by the granularity,
\* '%Y-%m-%d', '%Y-W%U', '%Y-%m' or to_period('Q'); the formatted text is
\* held as its components
TimeGroup(label, closeDate) ==
    LET t == to_datetime[closeDate]
    IN  IF label = "Day" THEN [year |-> t.year, month |-> t.month, day |-> t.day]
        ELSE IF label = "Week"
        THEN [year |-> t.year, week |-> WeekOfYearSunday(t.year, t.month, t.day)]
        ELSE IF label = "Month" THEN [year |-> t.year, month |-> t.month]
        ELSE [year |-> t.year, quarter |-> ((t.month - 1) \div 3) + 1]

\* the weight of every line of business being 1.0, in halves
WeightedCountFlat(x) == 2

\* lambda x: 0.5 if x == 'Flood' else 1.0, in halves
WeightedCount(x) == IF x = "Flood" THEN 1 ELSE 2

RECURSIVE SumColumn(_, _, _)
\* table[col].sum() over the rows S of a table
SumColumn(table, col, S) ==
    IF S = {} THEN 0
    ELSE LET k == CHOOSE x \in S : TRUE
         IN  table[k][col] + SumColumn(table, col, S \ {k})

\* df_core_workload.groupby(['AccountManager', 'TimeGroup', 'BusinessType'])
\* with Count and Count * weight; groupby drops a row whose key is None
WorkloadSummary(core, label) ==
    LET rows == {r \in DOMAIN core : r.AccountManager # Null}
        keys == {<<r.AccountManager, TimeGroup(label, r.CloseDate), r.BusinessType>> :
                    r \in rows}
    IN  [k \in keys |->
            LET count == Len0(Filter(core,
                            {r \in rows : /\ r.AccountManager = k[1]
                                          /\ TimeGroup(label, r.CloseDate) = k[2]
                                          /\ r.BusinessType = k[3]}))
            IN  [Count |-> count, WeightedCount |-> count * WeightedCount(k[3])]]

\* the totals of a manager and bucket taken from one of its partitions
TimeTotalsOnePartition(workload_summary) ==
    [g \in {<<k[1], k[2]>> : k \in DOMAIN workload_summary} |->
        LET part == {k \in DOMAIN workload_summary : k[1] = g[1] /\ k[2] = g[2]}
            one == CHOOSE k \in part : TRUE
        IN  [Count |-> workload_summary[one].Count,
             WeightedCount |-> workload_summary[one].WeightedCount]]

\* workload_summary.groupby(['AccountManager', 'TimeGroup']) summed
TimeTotals(workload_summary) ==
    [g \in {<<k[1], k[2]>> : k \in DOMAIN workload_summary} |->
        LET part == {k \in DOMAIN workload_summary : k[1] = g[1] /\ k[2] = g[2]}
        IN  [Count |-> SumColumn(workload_summary, "Count", part),
             WeightedCount |-> SumColumn(workload_summary, "WeightedCount", part)]]

\* one row of detailed_breakdown: the four core lines' counts of a manager
\* and bucket, 0 for a line without rows, and their sums
DetailedRow(workload_summary, g) ==
    LET cell(line, col) ==
            IF <<g[1], g[2], line>> \in DOMAIN workload_summary
            THEN workload_summary[<<g[1], g[2], line>>][col] ELSE 0
    IN  [Auto |-> cell("Auto", "Count"), Flood |-> cell("Flood", "Count"),
         Homeowners |-> cell("Homeowners", "Count"),
         Umbrella |-> cell("Umbrella", "Count"),
         Total_Count |-> cell("Auto", "Count") + cell("Flood", "Count")
                         + cell("Homeowners", "Count") + cell("Umbrella", "Count"),
         Total_Weighted |-> cell("Auto", "WeightedCount") + cell("Flood", "WeightedCount")
                            + cell("Homeowners", "WeightedCount")
                            + cell("Umbrella", "WeightedCount")]

DetailedBreakdown(workload_summary) ==
    [g \in {<<k[1], k[2]>> : k \in DOMAIN workload_summary} |->
        DetailedRow(workload_summary, g)]

\* time_totals.groupby('AccountManager') summed, with
\* 'Workload Reduction' = 'Total Policies' - 'Weighted Total'; the counts
\* are whole, the weighted columns in halves
AmSummary(time_totals) ==
    [m \in {g[1] : g \in DOMAIN time_totals} |->
        LET part == {g \in DOMAIN time_totals : g[1] = m}
            policies == SumColumn(time_totals, "Count", part)
            weighted == SumColumn(time_totals, "WeightedCount", part)
        IN  [Total_Policies |-> policies, Weighted_Total |-> weighted,
             Workload_Reduction |-> 2 * policies - weighted]]

\* the workload tables before the section runs
NoWorkload ==
    [time_label |-> "", TimeGroup |-> NoPivot, workload_summary |-> NoPivot,
     time_totals |-> NoPivot, detailed_breakdown |-> NoPivot,
     am_summary |-> NoPivot, order |-> <<>>]

\* the month and status (or category) counts of the monthly trends:
\* df.groupby(['Month', key]).size(), which drops the rows whose Month is
\* NaN, those without a close date
MonthlyCounts(B, key) ==
    LET rows == {r \in DOMAIN B : r.CloseDate # Null /\ r[key] # Null}
        month(r) == TimeGroup("Month", r.CloseDate)
    IN  [g \in {<<month(r), r[key]>> : r \in rows} |->
            Len0(Filter(B, {r \in rows : month(r) = g[1] /\ r[key] = g[2]}))]

\* the rows of the DataFrames handed directly to the render
RenderStageNames == {"Closed Won", "Closed Lost", "New", "Prospecting"}
RenderTypes == {"Homeowners"}
RenderOwners == {"id-A", "id-B"}
RenderRecords ==
    {RawRecord(s, t, o, "obj", o, "2025-03-14") :
        s \in RenderStageNames, t \in RenderTypes, o \in RenderOwners}

RECURSIVE BagsUpTo(_, _)
\* every bag of at most n elements of S
BagsUpTo(S, n) ==
    IF n = 0 THEN {EmptyBag}
    ELSE LET smaller == BagsUpTo(S, n - 1)
         IN  smaller \cup {b (+) SetToBag({x}) : b \in smaller, x \in S}

(* ------------------------------ state ---------------------------------- *)
VARIABLES
    variant,              \* which script runs
    view_by,              \* sidebar radio "View Breakdown By"
    show_percentages,     \* sidebar checkbox "Show Percentages"
    show_data_table,      \* sidebar checkbox "Show Data Tables"
    date_range,           \* start_date and end_date
    pc,                   \* the statement the run is at
    failed,               \* the steps of this run that raised
    nrecords,             \* records of the query response iterated so far
    account_manager_map,  \* account_manager_map / producers
    data,                 \* the list the normalizer appends to
    df,                   \* the DataFrame connect_to_salesforce returned
    messages,             \* st.info / st.warning / st.error shown so far
    sections,             \* sections rendered so far
    bound,                \* names of the pivots the run has assigned
    summary,              \* total_opps, won_opps, lost_opps, open_opps
    lob_pivot, am_pivot, core_am_pivot, category_pivot, cat_win_pivot,
    win_rate_df, core_win_rate_df, cat_win_filtered,
    df_core,
    index,                \* the order of the rows of each sorted or displayed pivot
    top,                  \* top_business_types, top_managers, top_core_managers
    display_df,           \* the rows of each data table shown
    workload,             \* the tables of the workload allocation
    monthly,              \* monthly_df and monthly_cat_df
    cross_tab,            \* the cross-tabulations of the combined analysis
    rerun,                \* whether a run of the script came before this one
    record, row           \* single-record specification: input and output

vars ==
    <<variant, view_by, show_percentages, show_data_table, date_range, pc,
      failed, nrecords, account_manager_map, data, df, messages, sections,
      bound, summary, lob_pivot, am_pivot, core_am_pivot, category_pivot,
      cat_win_pivot, win_rate_df, core_win_rate_df, cat_win_filtered, df_core,
      index, top, display_df, workload, monthly, cross_tab, rerun, record, row>>

inputs ==
    <<variant, view_by, show_percentages, show_data_table, date_range, rerun, record>>
fetchVars == <<failed, nrecords, account_manager_map, data, df>>
orderVars == <<index, top, display_df>>
timeVars == <<workload, monthly>>
pivotVars ==
    <<bound, summary, lob_pivot, am_pivot, core_am_pivot, category_pivot,
      cat_win_pivot, win_rate_df, core_win_rate_df, cat_win_filtered, df_core,
      orderVars, timeVars, cross_tab>>

ViewOptions(v) ==
    IF v = "renewalOppUpdate"
    THEN {"Both", "Line of Business", "Account Manager"}
    ELSE {"Both", "Line of Business", "Business Type Categories", "Account Manager"}

NoSummary == [total_opps |-> 0, won_opps |-> 0, lost_opps |-> 0, open_opps |-> 0]
NoRecord == RawRecord(Null, Null, Null, Null, Null, Null)
NoRow == Normalize("renewup", NoLookup, NoRecord)
NoIndex == [t \in {} |-> <<>>]
NoMonthly == [monthly_df |-> NoPivot, monthly_cat_df |-> NoPivot]

\* the rows of a table in the order the run gave it, <<>> for a table the
\* run has not built
IndexOf(ix, table) == IF table \in DOMAIN ix THEN ix[table] ELSE <<>>

\* everything a run starts from, apart from its inputs and pc
Blank ==
    /\ failed = {}
    /\ nrecords = 0
    /\ account_manager_map = NoLookup
    /\ data = EmptyBag
    /\ df = EmptyBag
    /\ messages = {}
    /\ sections = {}
    /\ bound = {}
    /\ summary = NoSummary
    /\ lob_pivot = NoPivot /\ am_pivot = NoPivot /\ core_am_pivot = NoPivot
    /\ category_pivot = NoPivot /\ cat_win_pivot = NoPivot
    /\ win_rate_df = NoPivot /\ core_win_rate_df = NoPivot
    /\ cat_win_filtered = NoPivot
    /\ df_core = EmptyBag
    /\ index = NoIndex /\ top = NoIndex /\ display_df = NoIndex
    /\ workload = NoWorkload
    /\ monthly = NoMonthly
    /\ cross_tab = NoIndex
    /\ rerun = FALSE
    /\ row = NoRow

\* the sidebar as the script first draws it: "Show Data Tables" checked and
\* the period "Last 30 Days"
SidebarDefaults ==
    /\ show_data_table = TRUE
    /\ date_range = DefaultRange

\* the script starts: the sidebar holds the operator's choices
Init ==
    /\ variant \in Variants
    /\ view_by \in ViewOptions(variant)
    /\ show_percentages \in BOOLEAN
    /\ SidebarDefaults
    /\ pc = "login"
    /\ record = NoRecord
    /\ Blank

(* ------------------------------ the fetch ------------------------------ *)
\* the outer except returning the rows built so far
OuterExceptReturnsData(step) ==
    /\ failed' = failed \cup {step}
    /\ messages' = messages \cup {"Error connecting to Salesforce"}
    /\ df' = data
    /\ pc' = "render"

\* the outer except of connect_to_salesforce: st.error, return pd.DataFrame()
OuterExcept(step) ==
    /\ failed' = failed \cup {step}
    /\ messages' = messages \cup {"Error connecting to Salesforce"}
    /\ df' = EmptyBag
    /\ pc' = "render"

\* sf = Salesforce(...)
Login ==
    /\ pc = "login"
    /\ \E ok \in BOOLEAN :
        IF ok
        THEN /\ pc' = "lookup"
             /\ UNCHANGED <<failed, messages, df>>
        ELSE OuterExcept("login")
    /\ UNCHANGED <<inputs, nrecords, account_manager_map, data, sections,
                   pivotVars, row>>

\* renewup: the producer query and the producers dictionary;
\* renewalOppUpdate: the inner try (account and user queries, the two maps),
\* whose except shows a warning and goes on to the fallback query
Lookup ==
    /\ pc = "lookup"
    /\ \E ok \in BOOLEAN :
        IF ok
        THEN /\ account_manager_map' = ManagerLookup
             /\ pc' = "query"
             /\ UNCHANGED <<failed, messages, df>>
        ELSE IF variant = "renewalOppUpdate"
        THEN /\ failed' = failed \cup {"lookup"}
             /\ messages' = messages \cup {"Error in queries"}
             /\ pc' = "fallback"
             /\ UNCHANGED <<account_manager_map, df>>
        ELSE /\ OuterExcept("lookup")
             /\ UNCHANGED account_manager_map
    /\ UNCHANGED <<inputs, nrecords, data, sections, pivotVars, row>>

\* renewalOppUpdate: the fallback account query in the inner except
Fallback ==
    /\ pc = "fallback"
    /\ \E ok \in BOOLEAN :
        IF ok
        THEN /\ account_manager_map' = ManagerLookup
             /\ pc' = "query"
             /\ UNCHANGED <<failed, messages, df>>
        ELSE /\ OuterExcept("fallback")
             /\ UNCHANGED account_manager_map
    /\ UNCHANGED <<inputs, nrecords, data, sections, pivotVars, row>>

\* sf.query_all(opportunity_query)
Query ==
    /\ pc = "query"
    /\ \E ok \in BOOLEAN :
        IF ok
        THEN /\ pc' = "normalize"
             /\ UNCHANGED <<failed, messages, df>>
        ELSE OuterExcept("query")
    /\ UNCHANGED <<inputs, nrecords, account_manager_map, data, sections,
                   pivotVars, row>>

\* one iteration of the loop over the response's records
NormalizeRecord ==
    /\ pc = "normalize"
    /\ nrecords < MaxRecords
    /\ \E rec \in QueryAll(date_range) :
        IF NormalizeRaises(variant, rec)
        THEN /\ OuterExcept("normalize")
             /\ UNCHANGED data
        ELSE /\ data' = data (+) SetToBag({Normalize(variant, account_manager_map, rec)})
             /\ UNCHANGED <<failed, messages, df, pc>>
    /\ nrecords' = nrecords + 1
    /\ UNCHANGED <<inputs, account_manager_map, sections, pivotVars, row>>

\* the loop ends: df = pd.DataFrame(data); return df
EndOfRecords ==
    /\ pc = "normalize"
    /\ df' = data
    /\ pc' = "render"
    /\ UNCHANGED <<inputs, failed, nrecords, account_manager_map, data, messages,
                   sections, pivotVars, row>>

(* ------------------------------ the render ---------------------------- *)
\* the statement after a section, in script order
AfterSummary(v) == IF v = "renewup" THEN "category" ELSE "lob"
AfterRenewalType == "combined"
AfterCombined(v) == IF v = "renewup" THEN "cat_win" ELSE "monthly"

\* a DataFrame that never counts as empty
DfEmptyNever(B) == FALSE

\* df.empty
DfEmpty(B) == B = EmptyBag

\* `if not df.empty:` with the summary metrics, or the final else
RenderStart ==
    /\ pc = "render"
    /\ IF DfEmpty(df)
       THEN /\ messages' = messages \cup {"No data available"}
            /\ pc' = "done"
            /\ UNCHANGED <<sections, summary>>
       ELSE /\ summary' =
                [total_opps |-> Len0(df),
                 won_opps |-> Len0(Filter(df, {r \in DOMAIN df : r.StatusCategory = "Won"})),
                 lost_opps |-> Len0(Filter(df, {r \in DOMAIN df : r.StatusCategory = "Lost"})),
                 open_opps |-> Len0(Filter(df, {r \in DOMAIN df : r.StatusCategory = "Open"}))]
            /\ sections' = sections \cup {"summary"}
            /\ pc' = AfterSummary(variant)
            /\ UNCHANGED messages
    /\ UNCHANGED <<inputs, fetchVars, bound, lob_pivot, am_pivot, core_am_pivot,
                   category_pivot, cat_win_pivot, win_rate_df, core_win_rate_df,
                   cat_win_filtered, df_core, orderVars, timeVars, cross_tab, row>>

\* st.dataframe(pivot.reset_index()) under `if show_data_table:`
Displayed(shown, tables, name, order) ==
    IF shown THEN (name :> order) @@ tables ELSE tables

\* renewup: "Breakdown by Business Type Category"; category_pivot keeps the
\* order of its index
CategorySection ==
    /\ pc = "category"
    /\ IF view_by \in {"Both", "Business Type Categories"}
       THEN LET pivot == StatusPivot(df, "BusinessTypeCategory",
                                     VolumeColumns(show_percentages))
                order == LexSorted(DOMAIN pivot)
            IN  /\ category_pivot' = pivot
                /\ index' = ("category_pivot" :> order) @@ index
                /\ display_df' = Displayed(show_data_table, display_df,
                                           "category_pivot", order)
                /\ bound' = bound \cup {"category_pivot"}
                /\ sections' = sections \cup {"category"}
       ELSE UNCHANGED <<category_pivot, index, display_df, bound, sections>>
    /\ pc' = "lob"
    /\ UNCHANGED <<inputs, fetchVars, messages, summary, lob_pivot, am_pivot,
                   core_am_pivot, cat_win_pivot, win_rate_df, core_win_rate_df,
                   cat_win_filtered, df_core, top, timeVars, cross_tab, row>>

\* the order of lob_pivot: renewup sorts it by Total, renewalOppUpdate
\* leaves it in the order of its index
LobOrders(v, pivot) ==
    IF v = "renewup" THEN SortOutcomes(pivot, "Total", DOMAIN pivot)
    ELSE {LexSorted(DOMAIN pivot)}

\* "Breakdown by Line of Business" / "Breakdown by Specific Business Type";
\* renewup charts the first 15 rows of the sorted pivot
LineOfBusinessSection ==
    /\ pc = "lob"
    /\ IF view_by \in {"Both", "Line of Business"}
       THEN LET pivot == StatusPivot(df, "BusinessType", VolumeColumns(show_percentages))
            IN  \E order \in LobOrders(variant, pivot) :
                    /\ lob_pivot' = pivot
                    /\ index' = ("lob_pivot" :> order) @@ index
                    /\ top' = IF variant = "renewup"
                              THEN ("top_business_types" :> HeadRows(order, TopBusinessTypes)) @@ top
                              ELSE top
                    /\ display_df' = Displayed(show_data_table, display_df,
                                               "lob_pivot", order)
                    /\ bound' = bound \cup {"lob_pivot"}
                    /\ sections' = sections \cup {"lob"}
       ELSE UNCHANGED <<lob_pivot, index, top, display_df, bound, sections>>
    /\ pc' = "am"
    /\ UNCHANGED <<inputs, fetchVars, messages, summary, am_pivot, core_am_pivot,
                   category_pivot, cat_win_pivot, win_rate_df, core_win_rate_df,
                   cat_win_filtered, df_core, timeVars, cross_tab, row>>

\* df_no_marine (renewalOppUpdate) or df (renewup)
AccountManagerRows(v, B) ==
    IF v = "renewalOppUpdate"
    THEN Filter(B, {r \in DOMAIN B : ~ContainsMarine(r.BusinessType)})
    ELSE B

\* "Breakdown by Account Manager": am_pivot sorted by Total, the chart of
\* its first 10 managers, the win-rate chart sorted by Win_Rate, the table
AccountManagerSection ==
    /\ pc = "am"
    /\ IF view_by \in {"Both", "Account Manager"}
       THEN LET pivot == StatusPivot(AccountManagerRows(variant, df),
                                     "AccountManager", ManagerColumns(show_percentages))
                chart == WinRateFilter(pivot, MinClosedAM)
            IN  \E order \in SortOutcomes(pivot, "Total", DOMAIN pivot),
                   chartOrder \in SortOutcomes(chart, "Win_Rate", DOMAIN chart) :
                    /\ am_pivot' = pivot
                    /\ win_rate_df' = chart
                    /\ index' = ("am_pivot" :> order) @@ ("win_rate_df" :> chartOrder)
                                @@ index
                    /\ top' = ("top_managers" :> HeadRows(order, TopManagers)) @@ top
                    /\ display_df' = Displayed(show_data_table, display_df,
                                               "am_pivot", order)
                    /\ bound' = bound \cup {"am_pivot", "win_rate_df"}
                    /\ sections' = sections \cup {"am"}
                    /\ messages' =
                         IF chart = NoPivot
                         THEN messages \cup {"Not enough data: account manager win rates"}
                         ELSE messages
                    /\ pc' = IF variant = "renewalOppUpdate" THEN "core" ELSE "renewal_type"
       ELSE /\ pc' = "renewal_type"
            /\ UNCHANGED <<am_pivot, win_rate_df, index, top, display_df, bound,
                           sections, messages>>
    /\ UNCHANGED <<inputs, fetchVars, summary, lob_pivot, core_am_pivot,
                   category_pivot, cat_win_pivot, core_win_rate_df,
                   cat_win_filtered, df_core, timeVars, cross_tab, row>>

\* df[df['BusinessType'].isin(core_lines) & df['CloseDate'].notna()]
CoreRows(B) ==
    Filter(B, {r \in DOMAIN B : r.BusinessType \in get_core_lines /\ r.CloseDate # Null})

\* renewalOppUpdate: "Core Lines Analysis by Account Manager", inside the
\* account-manager branch: df_core, and when it has rows core_am_pivot
\* sorted by Total, the chart of its first 10 managers and the core
\* win-rate chart sorted by Win_Rate
CoreLinesSection ==
    /\ pc = "core"
    /\ LET core == CoreRows(df)
           pivot == StatusPivot(core, "AccountManager", ManagerColumns(show_percentages))
           chart == WinRateFilter(pivot, MinClosedCore)
       IN  /\ df_core' = core
           /\ sections' = sections \cup {"core"}
           /\ IF ~DfEmpty(core)
              THEN \E order \in SortOutcomes(pivot, "Total", DOMAIN pivot),
                      chartOrder \in SortOutcomes(chart, "Win_Rate", DOMAIN chart) :
                       /\ core_am_pivot' = pivot
                       /\ core_win_rate_df' = chart
                       /\ index' = ("core_am_pivot" :> order)
                                   @@ ("core_win_rate_df" :> chartOrder) @@ index
                       /\ top' = ("top_core_managers" :> HeadRows(order, TopManagers)) @@ top
                       /\ bound' = bound \cup {"core_am_pivot", "core_win_rate_df"}
                       /\ messages' =
                            IF chart = NoPivot
                            THEN messages \cup {"Not enough data: core lines win rates"}
                            ELSE messages
              ELSE UNCHANGED <<core_am_pivot, core_win_rate_df, index, top, bound,
                               messages>>
    /\ pc' = "workload"
    /\ UNCHANGED <<inputs, fetchVars, summary, lob_pivot, am_pivot, category_pivot,
                   cat_win_pivot, win_rate_df, cat_win_filtered, display_df,
                   timeVars, cross_tab, row>>

\* the workload tables of df_core under the granularity of the date range:
\* the TimeGroup column (by close date), the three groupings, and
\* am_summary sorted by its weighted total
WorkloadTables(core, range) ==
    LET label == TimeLabel(DateDiff(range))
        summary_ == WorkloadSummary(core, label)
        totals == TimeTotals(summary_)
        managers == AmSummary(totals)
    IN  {[time_label |-> label,
          TimeGroup |-> [d \in {r.CloseDate : r \in DOMAIN core} |-> TimeGroup(label, d)],
          workload_summary |-> summary_,
          time_totals |-> totals,
          detailed_breakdown |-> DetailedBreakdown(summary_),
          am_summary |-> managers, order |-> order] :
            order \in SortOutcomes(managers, "Weighted_Total", DOMAIN managers)}

\* renewalOppUpdate: "Core Lines Workload Allocation by Account Manager".
\* With rows in df_core the span of the date range is computed, which
\* raises between a datetime and a date, and the workload tables are
\* built; without rows the else branch shows its message and then reads
\* core_am_pivot, a name the run never assigned when df_core is empty:
\* NameError ends the run
WorkloadSection ==
    /\ pc = "workload"
    /\ sections' = sections \cup {"workload"}
    /\ IF ~DfEmpty(df_core)
       THEN IF DateDiffRaises(date_range)
            THEN /\ pc' = "aborted"
                 /\ failed' = failed \cup {"TypeError"}
                 /\ UNCHANGED <<messages, workload>>
            ELSE /\ workload' \in WorkloadTables(df_core, date_range)
                 /\ pc' = "renewal_type"
                 /\ UNCHANGED <<messages, failed>>
       ELSE /\ messages' = messages \cup {"No core lines data available"}
            /\ UNCHANGED workload
            /\ IF "core_am_pivot" \in bound
               THEN /\ pc' = "renewal_type"
                    /\ UNCHANGED failed
               ELSE /\ pc' = "aborted"
                    /\ failed' = failed \cup {"NameError"}
    /\ UNCHANGED <<inputs, nrecords, account_manager_map, data, df, bound, summary,
                   lob_pivot, am_pivot, core_am_pivot, category_pivot,
                   cat_win_pivot, win_rate_df, core_win_rate_df,
                   cat_win_filtered, df_core, orderVars, monthly, cross_tab, row>>

\* "Breakdown by Renewal Type"
RenewalTypeSection ==
    /\ pc = "renewal_type"
    /\ sections' = sections \cup {"renewal_type"}
    /\ pc' = AfterRenewalType
    /\ UNCHANGED <<inputs, fetchVars, messages, pivotVars, row>>

\* pd.crosstab(combined_df[rows], combined_df[cols]): the number of rows
\* of each pair of values that occurs; a row with a null value is not counted
CrossTab(B, rows, cols) ==
    LET counted == {r \in DOMAIN B : r[rows] # Null /\ r[cols] # Null}
    IN  [k \in {<<r[rows], r[cols]>> : r \in counted} |->
            Len0(Filter(B, {r \in counted : r[rows] = k[1] /\ r[cols] = k[2]}))]

\* the first rows of the two pivots as they stand: am_pivot sorted by
\* Total, lob_pivot sorted by Total in renewup only
CombinedTop(ix) ==
    [top_am |-> HeadRows(IndexOf(ix, "am_pivot"), TopCombined),
     top_lob |-> HeadRows(IndexOf(ix, "lob_pivot"), TopCombined)]

\* the rows of the heatmap of managers by business types
CombinedRows(B, tops) ==
    Filter(B, {r \in DOMAIN B : /\ r.AccountManager \in Range(tops.top_am)
                                /\ r.BusinessType \in Range(tops.top_lob)})

\* "Combined Analysis", only when view_by is "Both": the heatmap of the
\* first 5 managers by the first 5 lines of business, and before it in
\* renewup the heatmap of the first 5 managers by category
CombinedSection ==
    /\ pc = "combined"
    /\ IF view_by = "Both"
       THEN LET tops == CombinedTop(index)
                combined_df == CombinedRows(df, tops)
                by_category == Filter(df, {r \in DOMAIN df :
                                             r.AccountManager \in Range(tops.top_am)})
            IN  /\ top' = ("top_am" :> tops.top_am) @@ ("top_lob" :> tops.top_lob) @@ top
                /\ cross_tab' =
                     (IF combined_df # EmptyBag
                      THEN "business_type" :> CrossTab(combined_df, "AccountManager",
                                                       "BusinessType")
                      ELSE NoIndex)
                     @@ (IF variant = "renewup" /\ by_category # EmptyBag
                         THEN "category" :> CrossTab(by_category, "AccountManager",
                                                     "BusinessTypeCategory")
                         ELSE NoIndex)
                /\ messages' =
                     messages
                     \cup (IF combined_df = EmptyBag
                           THEN {"Not enough data for combined analysis."} ELSE {})
                     \cup (IF variant = "renewup" /\ by_category = EmptyBag
                           THEN {"Not enough data for combined category analysis."}
                           ELSE {})
                /\ sections' = sections \cup {"combined"}
       ELSE UNCHANGED <<top, cross_tab, messages, sections>>
    /\ pc' = AfterCombined(variant)
    /\ UNCHANGED <<inputs, fetchVars, bound, summary, lob_pivot, am_pivot,
                   core_am_pivot, category_pivot, cat_win_pivot, win_rate_df,
                   core_win_rate_df, cat_win_filtered, df_core, index, display_df,
                   timeVars, row>>

\* renewup: "Win Rate by Business Type Category", the chart sorted by
\* Win_Rate and its table shown when a category qualifies
CategoryWinRateSection ==
    /\ pc = "cat_win"
    /\ LET pivot == StatusPivot(df, "BusinessTypeCategory", {"Total_Closed", "Win_Rate"})
           chart == WinRateFilter(pivot, MinClosedCategory)
       IN  \E chartOrder \in SortOutcomes(chart, "Win_Rate", DOMAIN chart) :
               /\ cat_win_pivot' = pivot
               /\ cat_win_filtered' = chart
               /\ index' = ("cat_win_filtered" :> chartOrder) @@ index
               /\ display_df' = Displayed(show_data_table /\ chart # NoPivot,
                                          display_df, "cat_win_filtered", chartOrder)
               /\ bound' = bound \cup {"cat_win_pivot", "cat_win_filtered"}
               /\ messages' =
                    IF chart = NoPivot
                    THEN messages \cup {"Not enough data: category win rates"}
                    ELSE messages
    /\ sections' = sections \cup {"cat_win"}
    /\ pc' = "monthly"
    /\ UNCHANGED <<inputs, fetchVars, summary, lob_pivot, am_pivot, core_am_pivot,
                   category_pivot, win_rate_df, core_win_rate_df, df_core, top,
                   timeVars, cross_tab, row>>

\* "Monthly Renewal Trends": the counts by month and status, and in renewup
\* the counts by month and business-type category
MonthlyTrends ==
    /\ pc = "monthly"
    /\ monthly' =
         [monthly_df |-> MonthlyCounts(df, "StatusCategory"),
          monthly_cat_df |-> IF variant = "renewup"
                             THEN MonthlyCounts(df, "BusinessTypeCategory")
                             ELSE NoPivot]
    /\ sections' = sections \cup {"monthly"}
    /\ pc' = "raw"
    /\ UNCHANGED <<inputs, fetchVars, messages, bound, summary, lob_pivot, am_pivot,
                   core_am_pivot, category_pivot, cat_win_pivot, win_rate_df,
                   core_win_rate_df, cat_win_filtered, df_core, orderVars,
                   workload, cross_tab, row>>

\* the "View Raw Data" expander, the last statement of the script
RawData ==
    /\ pc = "raw"
    /\ sections' = sections \cup {"raw"}
    /\ pc' = "done"
    /\ UNCHANGED <<inputs, fetchVars, messages, pivotVars, row>>

Render ==
    \/ RenderStart
    \/ CategorySection
    \/ LineOfBusinessSection
    \/ AccountManagerSection
    \/ CoreLinesSection
    \/ WorkloadSection
    \/ RenewalTypeSection
    \/ CombinedSection
    \/ CategoryWinRateSection
    \/ MonthlyTrends
    \/ RawData

Next ==
    \/ Login
    \/ Lookup
    \/ Fallback
    \/ Query
    \/ NormalizeRecord
    \/ EndOfRecords
    \/ RenderStart
    \/ CategorySection
    \/ LineOfBusinessSection
    \/ AccountManagerSection
    \/ CoreLinesSection
    \/ WorkloadSection
    \/ RenewalTypeSection
    \/ CombinedSection
    \/ CategoryWinRateSection
    \/ MonthlyTrends
    \/ RawData

Spec == Init /\ [][Next]_vars

(* ---------------- the render of a given DataFrame ---------------------- *)
\* the fetch has returned one of frames, built with lookup; the render runs
\* from `if not df.empty`
AtRender(lookup, frames) ==
    /\ pc = "render"
    /\ record = NoRecord
    /\ failed = {}
    /\ nrecords = 0
    /\ account_manager_map = lookup
    /\ data \in frames
    /\ df = data
    /\ messages = {}
    /\ sections = {}
    /\ bound = {}
    /\ summary = NoSummary
    /\ lob_pivot = NoPivot /\ am_pivot = NoPivot /\ core_am_pivot = NoPivot
    /\ category_pivot = NoPivot /\ cat_win_pivot = NoPivot
    /\ win_rate_df = NoPivot /\ core_win_rate_df = NoPivot
    /\ cat_win_filtered = NoPivot
    /\ df_core = EmptyBag
    /\ index = NoIndex /\ top = NoIndex /\ display_df = NoIndex
    /\ workload = NoWorkload
    /\ monthly = NoMonthly
    /\ cross_tab = NoIndex
    /\ rerun = FALSE
    /\ row = NoRow

InitRender ==
    /\ variant \in Variants
    /\ view_by \in ViewOptions(variant)
    /\ show_percentages = TRUE
    /\ SidebarDefaults
    /\ AtRender(ManagerLookup,
                BagsUpTo({Normalize(variant, ManagerLookup, r) : r \in RenderRecords},
                         MaxRows))

SpecRender == InitRender /\ [][Render]_vars

(* ------------- the render of a DataFrame with many groups --------------- *)
\* the most groups a DataFrame of this specification has
MaxGroups == 16

WideIds ==
    <<"id-01", "id-02", "id-03", "id-04", "id-05", "id-06", "id-07", "id-08",
      "id-09", "id-10", "id-11", "id-12", "id-13", "id-14", "id-15", "id-16",
      "id-17">>
WideManagers ==
    <<"M01", "M02", "M03", "M04", "M05", "M06", "M07", "M08", "M09", "M10",
      "M11", "M12", "M13", "M14", "M15", "M16", "M17">>
WideTypes ==
    <<"Bond", "Bumbershoot", "Business Owners", "Commercial Auto",
      "Commercial Package", "Commercial Property", "Commercial Umbrella",
      "Crime", "Directors & Officers", "General Liability", "Golf Cart",
      "Homeowners", "Life", "Motorhome", "Personal Auto", "Umbrella", "Yacht">>

\* the manager lookup of an agency with many managers
WideLookup ==
    [i \in Range(WideIds) |-> WideManagers[CHOOSE k \in DOMAIN WideIds : WideIds[k] = i]]

\* the number of rows of the i-th group: distinct numbers from one group
\* to the next, except that group tie has as many rows as the group after it
WideTotal(i, step, tie) ==
    IF i = tie THEN ((step * (i + 1)) % 19) + 1 ELSE ((step * i) % 19) + 1

\* the row of the i-th group: one manager each, or one business type each
WideRow(v, by, i) ==
    IF by = "AccountManager"
    THEN Normalize(v, WideLookup,
                   RawRecord("New", "Homeowners", WideIds[i], "obj", WideIds[i], "2025-03-14"))
    ELSE Normalize(v, WideLookup,
                   RawRecord("New", WideTypes[i], WideIds[1], "obj", WideIds[1], "2025-03-14"))

\* n groups of open opportunities
WideFrame(v, by, n, step, tie) ==
    [r \in {WideRow(v, by, i) : i \in 1..n} |->
        WideTotal(CHOOSE i \in 1..n : WideRow(v, by, i) = r, step, tie)]

\* the rows of one manager: won, lost and open Homeowners opportunities
ManagerRows(v, i, won, lost, open) ==
    LET r(stage) == Normalize(v, WideLookup,
                       RawRecord(stage, "Homeowners", WideIds[i], "obj", WideIds[i],
                                 "2025-03-14"))
    IN  [x \in {r("Closed Won")} |-> won]
        @@ (IF lost > 0 THEN [x \in {r("Closed Lost")} |-> lost] ELSE EmptyBag)
        @@ (IF open > 0 THEN [x \in {r("New")} |-> open] ELSE EmptyBag)

\* two managers with enough closed opportunities for the win-rate charts
TwoManagerFrames(v) ==
    {ManagerRows(v, 1, w1, l1, o1) @@ ManagerRows(v, 2, w2, l2, o2) :
        w1 \in {3, 5}, w2 \in {3, 5}, l1 \in {0, 1}, l2 \in {0, 1},
        o1 \in {0, 1}, o2 \in {0, 1}}

\* the numbers of groups around the sizes of the chart subsets, and the
\* places of the tie around their last rows
WideSizes ==
    {2, TopManagers - 1, TopManagers, TopManagers + 1, TopBusinessTypes, MaxGroups}
WideTies == {0, 1, TopManagers - 1, TopManagers, TopBusinessTypes - 1, TopBusinessTypes}

\* one or two rows of one manager among which the line of business may be
\* empty in the CRM or a marine line, and the stage one the table lacks
SparseFrames(v) ==
    BagsUpTo({Normalize(v, WideLookup,
                        RawRecord(s, t, WideIds[1], "obj", WideIds[1], "2025-03-14")) :
                 s \in {"New", "Prospecting"},
                 t \in {Null, "Marine Package", "Homeowners"}}, 2)
    \ {EmptyBag}

WideFrames(v) ==
    {WideFrame(v, by, n, step, tie) :
        by \in {"AccountManager", "BusinessType"}, n \in WideSizes,
        step \in {1, 7}, tie \in WideTies}
    \cup TwoManagerFrames(v)
    \cup SparseFrames(v)

InitWide ==
    /\ variant \in Variants
    /\ view_by = "Both"
    /\ show_percentages = TRUE
    /\ show_data_table \in BOOLEAN
    /\ date_range = DefaultRange
    /\ AtRender(WideLookup, WideFrames(variant))

SpecWide == InitWide /\ [][Render]_vars

(* --------- the render of a DataFrame spread over the calendar ----------- *)
\* the most rows a DataFrame of this specification has
MaxTimeRows == 2

TimeCloseDates == {"2024-12-30", "2025-01-01", "2025-03-16", Null}
TimeRecords ==
    {RawRecord("Closed Won", t, o, "obj", o, d) :
        t \in {"Flood", "Homeowners"}, o \in RenderOwners, d \in TimeCloseDates}
    \cup {RawRecord("Closed Won", "Flood - PL", "id-A", "obj", "id-A", "2025-03-16")}

\* the date ranges the sidebar can give: the predefined periods, and custom
\* ranges ending today or entered with the start after the end
CustomSpans == {0, 7, 8, 31, 32, 365, 366}
DateRanges ==
    {PredefinedRange(p) : p \in TimePeriods}
    \cup {CustomRange(TodayOrdinal - k, TodayOrdinal) : k \in CustomSpans}
    \cup {CustomRange(TodayOrdinal, TodayOrdinal - 8)}

\* renewup has no section that reads the date range after the fetch
InitTime ==
    /\ variant \in Variants
    /\ view_by = "Both"
    /\ show_percentages = TRUE
    /\ show_data_table = TRUE
    /\ date_range \in (IF variant = "renewalOppUpdate" THEN DateRanges ELSE {DefaultRange})
    /\ AtRender(ManagerLookup,
                BagsUpTo({Normalize(variant, ManagerLookup, r) : r \in TimeRecords},
                         MaxTimeRows))

SpecTime == InitTime /\ [][Render]_vars

(* ------------------- the sidebar and the fetch ------------------------- *)
\* "Date Range Selection": a predefined period, or the custom range of the
\* two date inputs with st.sidebar.error and the swap when start > end
DateRangeSelection ==
    /\ pc = "sidebar"
    /\ \/ \E time_period \in TimePeriods :
            /\ date_range' = PredefinedRange(time_period)
            /\ UNCHANGED messages
       \/ \E startInput, endInput \in CustomInputs :
            /\ date_range' = CustomRange(startInput, endInput)
            /\ messages' =
                 IF startInput > endInput
                 THEN messages \cup {"Start date must be before or equal to end date."}
                 ELSE messages
    /\ pc' = "login"
    /\ UNCHANGED <<variant, view_by, show_percentages, show_data_table, rerun,
                   record, fetchVars, sections, pivotVars, row>>

\* the script from its sidebar to the return of connect_to_salesforce
InitFetch ==
    /\ variant \in Variants
    /\ view_by = "Both"
    /\ show_percentages = TRUE
    /\ SidebarDefaults
    /\ pc = "sidebar"
    /\ record = NoRecord
    /\ Blank

Fetch ==
    \/ DateRangeSelection
    \/ Login
    \/ Lookup
    \/ Fallback
    \/ Query
    \/ NormalizeRecord
    \/ EndOfRecords

SpecFetch == InitFetch /\ [][Fetch]_vars

(* --------------------------- runs in a session -------------------------- *)
\* the names of the run before staying assigned in the next run
NamesKept(names) == names

\* the names assigned when a run starts: the script is executed anew, so
\* none of the names the run before assigned
NamesAtStart(names) == {}

\* the operator picks a view after a run has ended: the script runs again
\* from its first line, with the widgets' values and nothing else
Rerun ==
    /\ pc \in {"done", "aborted"}
    /\ rerun' = TRUE
    /\ view_by' \in ViewOptions(variant)
    /\ pc' = "login"
    /\ failed' = {}
    /\ nrecords' = 0
    /\ account_manager_map' = NoLookup
    /\ data' = EmptyBag
    /\ df' = EmptyBag
    /\ messages' = {}
    /\ sections' = {}
    /\ bound' = NamesAtStart(bound)
    /\ summary' = NoSummary
    /\ lob_pivot' = NoPivot /\ am_pivot' = NoPivot /\ core_am_pivot' = NoPivot
    /\ category_pivot' = NoPivot /\ cat_win_pivot' = NoPivot
    /\ win_rate_df' = NoPivot /\ core_win_rate_df' = NoPivot
    /\ cat_win_filtered' = NoPivot
    /\ df_core' = EmptyBag
    /\ index' = NoIndex /\ top' = NoIndex /\ display_df' = NoIndex
    /\ workload' = NoWorkload
    /\ monthly' = NoMonthly
    /\ cross_tab' = NoIndex
    /\ UNCHANGED <<variant, show_percentages, show_data_table, date_range, record, row>>

\* a session starts with the percentages shown, as the checkbox first is
InitSession ==
    /\ Init
    /\ show_percentages = TRUE

\* the script run again and again in one session
SpecRerun == InitSession /\ [][Next \/ Rerun]_vars

(* ---------------- the normalizer on a single record -------------------- *)
InitNormalize ==
    /\ variant \in Variants
    /\ view_by = "Both"
    /\ show_percentages = TRUE
    /\ SidebarDefaults
    /\ pc = "normalize_one"
    /\ record \in AllRecords
    /\ Blank

\* the loop body applied to record, with the lookup a successful fetch built
NormalizeOne ==
    /\ pc = "normalize_one"
    /\ IF NormalizeRaises(variant, record)
       THEN /\ pc' = "raised"
            /\ UNCHANGED row
       ELSE /\ pc' = "normalized"
            /\ row' = Normalize(variant, ManagerLookup, record)
    /\ UNCHANGED <<inputs, fetchVars, messages, sections, pivotVars>>

SpecNormalize == InitNormalize /\ [][NormalizeOne]_vars

(* ------------------------------ properties ---------------------------- *)
\* the run is past connect_to_salesforce
Fetched == pc \notin {"sidebar", "login", "lookup", "fallback", "query", "normalize",
                      "normalize_one", "normalized", "raised"}

\* C1: in every pivot (account manager, business type, business-type
\* category, core-lines account manager) every group has
\* Total = Won + Lost + Open, whatever the rows, Unknown-stage rows included.
C1_TotalIsWonLostOpen ==
    \A pivot \in {am_pivot, lob_pivot, category_pivot, core_am_pivot} :
        \A g \in DOMAIN pivot :
            pivot[g].Total = pivot[g].Won + pivot[g].Lost + pivot[g].Open

\* C2: every record of the response yields one row: once the remote calls
\* have succeeded, the DataFrame returned has as many rows as the response
\* had records, malformed ones included.
C2_EveryRecordYieldsARow ==
    (Fetched /\ failed \cap {"login", "lookup", "fallback", "query"} = {})
        => Len0(df) = nrecords

\* C3: a render over a non-empty record set never aborts partway: a section
\* without data shows its message and the later sections are still rendered.
C3_RenderNeverAborts ==
    /\ pc # "aborted"
    /\ (pc = "done" /\ df # EmptyBag)
         => {"renewal_type", "monthly", "raw"} \subseteq sections

\* C4 as stated: whenever any step of the fetch has failed, the fetch
\* returns no rows and the render shows only the "No data available" warning.
C4_AnyFailedStepGivesNoData ==
    (Fetched /\ failed \cap {"login", "lookup", "fallback", "query", "normalize"} # {})
        => /\ df = EmptyBag
           /\ sections = {}
           /\ pc = "done" => "No data available" \in messages

\* the failure reached the outer except: any failed step but the first
\* account/user lookup of renewalOppUpdate, which the inner except recovers
Unrecovered ==
    \/ failed \cap {"login", "fallback", "query", "normalize"} # {}
    \/ variant = "renewup" /\ "lookup" \in failed

\* C4 (amended): a failure that reaches the outer except (login, the producer
\* query of renewup, the fallback account query of renewalOppUpdate, the
\* opportunity query, a malformed response) makes the fetch return no rows
\* with an error shown, and the render then shows only the "No data
\* available" warning and computes no section; a failure of the first
\* account/user lookup of renewalOppUpdate only shows a warning.
C4_UnrecoveredFailureGivesNoData ==
    /\ (Fetched /\ Unrecovered)
         => /\ df = EmptyBag
            /\ "Error connecting to Salesforce" \in messages
            /\ sections = {} /\ bound = {}
            /\ pc \in {"render", "done"}
            /\ pc = "done" => "No data available" \in messages
    /\ (variant = "renewalOppUpdate" /\ "lookup" \in failed)
         => "Error in queries" \in messages

C4_Witness ==
    /\ pc = "done" /\ "query" \in failed
    /\ "No data available" \in messages /\ sections = {}

\* C5: the stage classifier is total: the ten open stage names give Open,
\* Closed Won gives Won, Closed Lost gives Lost, any other stage name gives
\* Unknown, so a row's stage category is one of the four values.
C5_StageClassifier ==
    pc = "normalized" =>
        LET s == record.StageName
            c == row.StatusCategory
        IN  /\ c \in {"Open", "Won", "Lost", "Unknown"}
            /\ c = "Open" <=>
                 s \in {"New", "Information Gathering", "Rating",
                        "Proposal Generation", "Decision Pending",
                        "Pre-Bind Review", "Quote to Bind", "Binding",
                        "Billing", "Post-Binding"}
            /\ c = "Won" <=> s = "Closed Won"
            /\ c = "Lost" <=> s = "Closed Lost"

C5_Witness ==
    /\ pc = "normalized"
    /\ record.StageName = "Billing" /\ row.StatusCategory = "Open"

\* C6: the consolidated category of every row is one of the nine fixed
\* groups or "Other"; a type of the mapping table yields one of the nine
\* groups and a type absent from it yields "Other".
C6_CategoryInFixedSet ==
    (pc = "normalized" /\ variant = "renewup") =>
        LET nine == {"Commercial", "Homeowners", "Marine", "Flood",
                     "Specialty Lines", "Life", "Auto", "CPL/Excess CPL",
                     "Umbrella"}
        IN  /\ row.BusinessTypeCategory \in nine \cup {"Other"}
            /\ row.BusinessType \in MappedTypes => row.BusinessTypeCategory \in nine
            /\ row.BusinessType \notin MappedTypes => row.BusinessTypeCategory = "Other"

\* the pivots of the win-rate views
WinRateViews == {am_pivot, core_am_pivot, cat_win_pivot}

\* C7: in every group of every win-rate view Win_Rate is Won/(Won+Lost)*100
\* rounded to one decimal (within 0.05 of the exact ratio) when Won+Lost > 0
\* and 0 when Won+Lost = 0; it lies in [0, 100]; a manager with one Won,
\* one Lost and one Open row has Total 3 and Win_Rate 50.0.
C7_WinRate ==
    /\ \A pivot \in WinRateViews : \A g \in DOMAIN pivot :
        LET w == pivot[g].Won
            c == pivot[g].Won + pivot[g].Lost
            wr == pivot[g].Win_Rate
        IN  /\ c = 0 => wr = 0
            /\ c > 0 => /\ 10 * wr * c - 10000 * w <= 5 * c
                        /\ 10000 * w - 10 * wr * c <= 5 * c
            /\ 0 <= wr /\ wr <= 1000
    /\ \A g \in DOMAIN am_pivot :
        (am_pivot[g].Won = 1 /\ am_pivot[g].Lost = 1 /\ am_pivot[g].Open = 1
            /\ am_pivot[g].Unknown = 0)
        => (am_pivot[g].Total = 3 /\ am_pivot[g].Win_Rate = 500)

C7_Witness ==
    /\ \E g \in DOMAIN am_pivot :
        /\ am_pivot[g].Won = 1 /\ am_pivot[g].Lost = 1 /\ am_pivot[g].Open = 1
        /\ am_pivot[g].Total = 3 /\ am_pivot[g].Win_Rate = 500
    /\ \E g \in DOMAIN am_pivot :
        am_pivot[g].Won + am_pivot[g].Lost = 0 /\ am_pivot[g].Win_Rate = 0

\* C8 as stated: a group's Win_Rate is 0 exactly when it has no closed
\* (Won or Lost) opportunity.
C8_ZeroIffNoClosed ==
    \A pivot \in WinRateViews : \A g \in DOMAIN pivot :
        pivot[g].Win_Rate = 0 <=> pivot[g].Won + pivot[g].Lost = 0

\* C8 (amended): a group's Win_Rate is 0 whenever it has no Won opportunity,
\* which covers every group without closed opportunities but also a group
\* whose closed opportunities are all Lost; and a group with a Won
\* opportunity and fewer than 2000 closed ones has a Win_Rate above 0.
C8_ZeroIffNoWon ==
    \A pivot \in WinRateViews : \A g \in DOMAIN pivot :
        /\ pivot[g].Won = 0 => pivot[g].Win_Rate = 0
        /\ (pivot[g].Won >= 1 /\ pivot[g].Won + pivot[g].Lost < 2000)
             => pivot[g].Win_Rate > 0

C8_Witness ==
    /\ \E g \in DOMAIN am_pivot :
        am_pivot[g].Won = 0 /\ am_pivot[g].Lost > 0 /\ am_pivot[g].Win_Rate = 0
    /\ \E g \in DOMAIN am_pivot :
        am_pivot[g].Won + am_pivot[g].Lost = 0 /\ am_pivot[g].Win_Rate = 0

\* C9: when percentages are requested, in every group with Total > 0 the
\* three percentages sum to 100 within rounding tolerance (0.1), whatever
\* the rows, Unknown-stage rows included.
C9_PercentagesSumTo100 ==
    show_percentages =>
        \A pivot \in {am_pivot, lob_pivot, category_pivot, core_am_pivot} :
            \A g \in DOMAIN pivot :
                pivot[g].Total > 0 =>
                    LET sum == pivot[g].Won_Pct + pivot[g].Lost_Pct + pivot[g].Open_Pct
                    IN  999 <= sum /\ sum <= 1001

\* the groups of a pivot with at least n closed opportunities
Qualifying(pivot, n) == {g \in DOMAIN pivot : pivot[g].Won + pivot[g].Lost >= n}

\* C10: a group is in a win-rate chart exactly when its Won+Lost meets the
\* view's threshold: 5 for the account-manager and category views, 3 for
\* the core-lines view; a view without qualifying group shows its message
\* in place of the chart.
C10_MinimumSample ==
    /\ "win_rate_df" \in bound =>
        /\ DOMAIN win_rate_df = Qualifying(am_pivot, 5)
        /\ \A g \in DOMAIN win_rate_df : win_rate_df[g] = am_pivot[g]
        /\ Qualifying(am_pivot, 5) = {}
             <=> "Not enough data: account manager win rates" \in messages
    /\ "core_win_rate_df" \in bound =>
        /\ DOMAIN core_win_rate_df = Qualifying(core_am_pivot, 3)
        /\ \A g \in DOMAIN core_win_rate_df : core_win_rate_df[g] = core_am_pivot[g]
        /\ Qualifying(core_am_pivot, 3) = {}
             <=> "Not enough data: core lines win rates" \in messages
    /\ "cat_win_filtered" \in bound =>
        /\ DOMAIN cat_win_filtered = Qualifying(cat_win_pivot, 5)
        /\ \A g \in DOMAIN cat_win_filtered : cat_win_filtered[g] = cat_win_pivot[g]
        /\ Qualifying(cat_win_pivot, 5) = {}
             <=> "Not enough data: category win rates" \in messages

C10_Witness ==
    /\ \E g \in DOMAIN win_rate_df : am_pivot[g].Won + am_pivot[g].Lost = 5
    /\ \E g \in DOMAIN core_win_rate_df :
        core_am_pivot[g].Won + core_am_pivot[g].Lost >= 3
    /\ pc = "done"

(* ------------------------ ordering and truncation ----------------------- *)
\* the pivot behind each entry of index
Tables ==
    [category_pivot |-> category_pivot, lob_pivot |-> lob_pivot,
     am_pivot |-> am_pivot, core_am_pivot |-> core_am_pivot,
     win_rate_df |-> win_rate_df, core_win_rate_df |-> core_win_rate_df,
     cat_win_filtered |-> cat_win_filtered]

VolumeTables == {"category_pivot", "lob_pivot", "am_pivot", "core_am_pivot"}

\* the column a view is meant to be ordered by
SortColumn(table) == IF table \in VolumeTables THEN "Total" ELSE "Win_Rate"

\* the rows of order go down, or stay level, in column col
NonIncreasing(table, col, order) ==
    \A i, j \in DOMAIN order :
        i < j => table[order[i]][col] >= table[order[j]][col]

\* the rows of order that are level in column col are in key order
TiesInKeyOrder(table, col, order) ==
    \A i, j \in DOMAIN order :
        (i < j /\ table[order[i]][col] = table[order[j]][col])
            => LexLess(order[i], order[j])

\* C11: every volume table (account manager, line of business or specific
\* business type, business-type category, core-lines account manager) lists
\* its groups in non-increasing order of Total, and every win-rate view in
\* non-increasing order of Win_Rate.
C11_ViewsAreSorted ==
    \A t \in DOMAIN index :
        NonIncreasing(Tables[t], SortColumn(t), index[t])

\* C12: in every sorted view the groups with equal Total (volume views) or
\* equal Win_Rate (win-rate views) are in ascending order of the group key;
\* in particular the win-rate view, made from the pivot sorted by Total,
\* orders its Win_Rate ties by key and not by Total.
C12_TiesByGroupKey ==
    \A t \in DOMAIN index :
        TiesInKeyOrder(Tables[t], SortColumn(t), index[t])

\* the chart subset is the n rows of the pivot with the largest Total, or
\* every row of a pivot with fewer than n
IsTopN(chart, pivot, n) ==
    /\ Len(chart) = (IF Cardinality(DOMAIN pivot) < n THEN Cardinality(DOMAIN pivot) ELSE n)
    /\ Range(chart) \subseteq DOMAIN pivot
    /\ \A i, j \in DOMAIN chart : i # j => chart[i] # chart[j]
    /\ \A g \in Range(chart), h \in DOMAIN pivot \ Range(chart) :
        pivot[g].Total >= pivot[h].Total

\* the table shown has every group of the pivot, once
IsFullTable(shown, pivot) ==
    /\ Range(shown) = DOMAIN pivot
    /\ Len(shown) = Cardinality(DOMAIN pivot)

\* C13: the account-manager chart holds exactly the min(10, number of
\* managers) managers with the largest Total, the specific-business-type
\* chart of renewup the 15 types with the largest Total, and the full table
\* shown under the chart holds every group of its pivot.
C13_TopNOnlyInCharts ==
    /\ "top_managers" \in DOMAIN top =>
        IsTopN(top.top_managers, am_pivot, 10)
    /\ "top_business_types" \in DOMAIN top =>
        IsTopN(top.top_business_types, lob_pivot, 15)
    /\ \A t \in DOMAIN display_df : IsFullTable(display_df[t], Tables[t])
    /\ (show_data_table /\ "am" \in sections) => "am_pivot" \in DOMAIN display_df
    /\ (show_data_table /\ "lob" \in sections) => "lob_pivot" \in DOMAIN display_df

\* more managers than the chart takes, the table shown with all of them
C13_Witness ==
    /\ Cardinality(DOMAIN am_pivot) > 10
    /\ "top_managers" \in DOMAIN top
    /\ Len(top.top_managers) = 10
    /\ "am_pivot" \in DOMAIN display_df
    /\ Len(display_df.am_pivot) > 10

\* more business types than the chart takes
C13_WitnessBusinessTypes ==
    /\ Cardinality(DOMAIN lob_pivot) > 15
    /\ "top_business_types" \in DOMAIN top
    /\ Len(top.top_business_types) = 15
    /\ "lob_pivot" \in DOMAIN display_df

\* a win-rate chart whose level rows a stable sort leaves in the order of
\* Total: the manager with more opportunities first, against the key order
C12_TieKeptInTotalOrder ==
    /\ Len(IndexOf(index, "win_rate_df")) = 2
    /\ LET first == index.win_rate_df[1]
           second == index.win_rate_df[2]
       IN  /\ index.am_pivot = <<first, second>>
           /\ am_pivot[first].Win_Rate = am_pivot[second].Win_Rate
           /\ am_pivot[first].Total > am_pivot[second].Total
           /\ LexLess(second, first)

(* --------------------------- workload allocation ------------------------ *)
\* the workload section has built its tables
WorkloadBuilt == workload.time_label # ""

\* the rows of B of a manager, or of a manager and bucket, under the
\* TimeGroup column
OfManager(B, m) == Filter(B, {r \in DOMAIN B : r.AccountManager = m})
OfBucket(B, m, b) ==
    Filter(B, {r \in DOMAIN B : r.AccountManager = m /\ workload.TimeGroup[r.CloseDate] = b})
FloodRows(B) == Filter(B, {r \in DOMAIN B : r.BusinessType = "Flood"})
OtherRows(B) == Filter(B, {r \in DOMAIN B : r.BusinessType # "Flood"})

\* the rows the claim has the workload count: consolidated business
\* category among the core lines, close date present
CoreCategoryRows(B) ==
    Filter(B, {r \in DOMAIN B : /\ BusinessTypeCategory(r.BusinessType) \in get_core_lines
                                /\ r.CloseDate # Null})

\* C14: the workload allocation counts exactly the rows whose consolidated
\* business category is a core line and whose close date is present: each
\* is counted in exactly one (manager, bucket, business type) partition and
\* no other row is counted.
C14_WorkloadCountsCoreCategoryRows ==
    WorkloadBuilt =>
        LET counted == workload.workload_summary
            rows == CoreCategoryRows(df)
        IN  /\ SumColumn(counted, "Count", DOMAIN counted) = Len0(rows)
            /\ \A k \in DOMAIN counted :
                counted[k].Count =
                    Len0(Filter(rows, {r \in DOMAIN rows :
                                        /\ r.AccountManager = k[1]
                                        /\ r.BusinessType = k[3]
                                        /\ r.CloseDate \in DOMAIN workload.TimeGroup
                                        /\ workload.TimeGroup[r.CloseDate] = k[2]}))

\* C15: for every (manager, bucket) group, and for every manager over the
\* whole range, with n Flood rows and m rows of other core lines the
\* weighted count is 0.5n + 1.0m, and the manager's Workload Reduction is
\* 0.5n (the weighted columns are in halves).
C15_WorkloadWeighting ==
    WorkloadBuilt =>
        /\ \A g \in DOMAIN workload.time_totals :
            LET rows == OfBucket(df_core, g[1], g[2])
            IN  workload.time_totals[g].WeightedCount
                    = Len0(FloodRows(rows)) + 2 * Len0(OtherRows(rows))
        /\ \A m \in DOMAIN workload.am_summary :
            LET rows == OfManager(df_core, m)
            IN  /\ workload.am_summary[m].Weighted_Total
                        = Len0(FloodRows(rows)) + 2 * Len0(OtherRows(rows))
                /\ workload.am_summary[m].Workload_Reduction = Len0(FloodRows(rows))

\* a bucket of one manager with a Flood row and a row of another core line
C15_Witness ==
    /\ WorkloadBuilt
    /\ \E g \in DOMAIN workload.time_totals :
        /\ Len0(FloodRows(OfBucket(df_core, g[1], g[2]))) = 1
        /\ Len0(OtherRows(OfBucket(df_core, g[1], g[2]))) = 1
        /\ workload.time_totals[g].WeightedCount = 3
        /\ workload.am_summary[g[1]].Workload_Reduction = 1

\* the parts of a bucket under each granularity
BucketFields(label) ==
    IF label = "Day" THEN {"year", "month", "day"}
    ELSE IF label = "Week" THEN {"year", "week"}
    ELSE IF label = "Month" THEN {"year", "month"}
    ELSE {"year", "quarter"}

\* C16: the granularity is a function of span = (endDate - startDate) in
\* days, chosen once: span <= 7 day, 8..31 week, 32..365 month, above 365
\* quarter; one granularity for every span >= 0, and every row of the
\* report is bucketed with it.
C16_GranularityBySpan ==
    WorkloadBuilt =>
        LET span == date_range.end_date.ordinal - date_range.start_date.ordinal
        IN  /\ span >= 0
            /\ span \in 0..7 <=> workload.time_label = "Day"
            /\ span \in 8..31 <=> workload.time_label = "Week"
            /\ span \in 32..365 <=> workload.time_label = "Month"
            /\ span > 365 <=> workload.time_label = "Quarter"
            /\ \A d \in DOMAIN workload.TimeGroup :
                DOMAIN workload.TimeGroup[d] = BucketFields(workload.time_label)
            /\ \A k \in DOMAIN workload.workload_summary :
                DOMAIN k[2] = BucketFields(workload.time_label)

\* a range of 8 days, the shortest bucketed by week
C16_Witness ==
    /\ WorkloadBuilt
    /\ date_range.end_date.ordinal - date_range.start_date.ordinal = 8
    /\ workload.time_label = "Week"
    /\ workload.workload_summary # NoPivot

\* the other thresholds: 7 days by day, 31 by week, 32 and 365 by month,
\* 366 by quarter
C16_WitnessThresholds ==
    \E span \in {7, 31, 32, 365, 366} :
        /\ WorkloadBuilt
        /\ date_range.end_date.ordinal - date_range.start_date.ordinal = span
        /\ workload.time_label = (IF span = 7 THEN "Day" ELSE IF span = 31 THEN "Week"
                                  ELSE IF span = 366 THEN "Quarter" ELSE "Month")

\* the ISO week of a close date of the model
IsoWeekOf(closeDate) ==
    LET t == to_datetime[closeDate] IN IsoWeekStart(t.year, t.month, t.day)

\* C17: with week granularity two rows are in the same bucket exactly when
\* their close dates are in the same ISO year and ISO week (Monday to
\* Sunday), also across a year boundary.
C17_WeekBucketIsIsoWeek ==
    (WorkloadBuilt /\ workload.time_label = "Week") =>
        \A d1, d2 \in DOMAIN workload.TimeGroup :
            workload.TimeGroup[d1] = workload.TimeGroup[d2]
                <=> IsoWeekOf(d1) = IsoWeekOf(d2)

\* C18: the roll-ups agree at every level: a bucket's count and weighted
\* count are the sums over its business-type partitions and equal the
\* detailed breakdown's Total_Count and Total_Weighted; a manager's totals
\* are the sums over the manager's buckets; the Total Policies of all
\* managers add up to the number of core-line rows with a close date.
C18_RollUpsAgree ==
    WorkloadBuilt =>
        LET parts == workload.workload_summary
            buckets == workload.time_totals
            managers == workload.am_summary
        IN  /\ DOMAIN workload.detailed_breakdown = DOMAIN buckets
            /\ \A g \in DOMAIN buckets :
                LET of == {k \in DOMAIN parts : k[1] = g[1] /\ k[2] = g[2]}
                IN  /\ buckets[g].Count = SumColumn(parts, "Count", of)
                    /\ buckets[g].WeightedCount = SumColumn(parts, "WeightedCount", of)
                    /\ workload.detailed_breakdown[g].Total_Count = buckets[g].Count
                    /\ workload.detailed_breakdown[g].Total_Weighted
                         = buckets[g].WeightedCount
            /\ \A m \in DOMAIN managers :
                LET of == {g \in DOMAIN buckets : g[1] = m}
                IN  /\ managers[m].Total_Policies = SumColumn(buckets, "Count", of)
                    /\ managers[m].Weighted_Total = SumColumn(buckets, "WeightedCount", of)
            /\ SumColumn(managers, "Total_Policies", DOMAIN managers)
                 = Len0(Filter(df, {r \in DOMAIN df : /\ r.BusinessType \in get_core_lines
                                                       /\ r.CloseDate # Null}))

\* a bucket with two business-type partitions
C18_Witness ==
    /\ WorkloadBuilt
    /\ \E g \in DOMAIN workload.time_totals :
        /\ Cardinality({k \in DOMAIN workload.workload_summary :
                            k[1] = g[1] /\ k[2] = g[2]}) = 2
        /\ workload.time_totals[g].Count = 2

\* a manager with two buckets, and two managers
C18_WitnessBuckets ==
    /\ WorkloadBuilt
    /\ \/ \E m \in DOMAIN workload.am_summary :
            Cardinality({g \in DOMAIN workload.time_totals : g[1] = m}) = 2
    /\ pc = "done"

(* ------------------------- empty and undated rows ----------------------- *)
\* the opportunity query answered with no record
EmptyFetch == Fetched /\ ~Unrecovered /\ nrecords = 0

\* no aggregation has been computed
NothingAggregated ==
    /\ sections = {} /\ bound = {} /\ summary = NoSummary
    /\ index = NoIndex /\ top = NoIndex /\ display_df = NoIndex
    /\ workload = NoWorkload /\ monthly = NoMonthly

\* C19: when the fetch yields an empty list of records the render raises
\* nothing, computes no aggregation, and shows the "No data available"
\* message.
C19_EmptyFetchShowsNoData ==
    EmptyFetch =>
        /\ pc \in {"render", "done"}
        /\ failed \cap {"NameError", "TypeError"} = {}
        /\ NothingAggregated
        /\ pc = "done" => "No data available" \in messages

\* the render of an empty fetch has ended with its message
C19_Witness ==
    /\ EmptyFetch /\ failed = {}
    /\ pc = "done"
    /\ messages = {"No data available"}

\* the rows of B with and without a close date
Dated(B) == Filter(B, {r \in DOMAIN B : r.CloseDate # Null})
Undated(B) == Filter(B, {r \in DOMAIN B : r.CloseDate = Null})

\* the calendar month of a close date
MonthOf(closeDate) ==
    [year |-> to_datetime[closeDate].year, month |-> to_datetime[closeDate].month]

\* a monthly table counts the dated rows of df, each under its month and
\* its value of key, and nothing else
CountsDatedRows(table, key) ==
    /\ \A r \in DOMAIN Dated(df) : <<MonthOf(r.CloseDate), r[key]>> \in DOMAIN table
    /\ \A g \in DOMAIN table :
        table[g] = Len0(Filter(df, {r \in DOMAIN Dated(df) :
                                      MonthOf(r.CloseDate) = g[1] /\ r[key] = g[2]}))

CloseDay(closeDate) ==
    LET t == to_datetime[closeDate] IN ToOrdinal(t.year, t.month, t.day)

\* C21: every record the fetch hands to the normalizer is a renewal
\* ('Personal Lines - Renewal' or 'Commercial Lines - Renewal') whose close
\* date d has startDate <= d <= endDate, both bounds inclusive, for every
\* start/end pair the sidebar can produce.
C21_FetchedInRange ==
    \A r \in DOMAIN data :
        /\ r.RenewalType \in {"Personal Lines - Renewal", "Commercial Lines - Renewal"}
        /\ r.CloseDate \in DOMAIN to_datetime
        /\ date_range.start_date.ordinal <= CloseDay(r.CloseDate)
        /\ CloseDay(r.CloseDate) <= date_range.end_date.ordinal

\* rows closed on the first and on the last day of the range, one of them a
\* commercial renewal
C21_Witness ==
    /\ pc = "render"
    /\ \E r \in DOMAIN df : CloseDay(r.CloseDate) = date_range.start_date.ordinal
    /\ \E r \in DOMAIN df : CloseDay(r.CloseDate) = date_range.end_date.ordinal
    /\ date_range.start_date.ordinal < date_range.end_date.ordinal
    /\ \E r \in DOMAIN df : r.RenewalType = "Commercial Lines - Renewal"

(* ------------------------ the normalized fields ------------------------ *)
\* C22: a record whose line-of-business field is absent, the key missing
\* or present with a null value, gets the businessType "Not Specified";
\* any other record gets its raw value unchanged.
C22_BusinessTypeDefault ==
    pc = "normalized" =>
        /\ record.Type \in {Null, Missing} => row.BusinessType = "Not Specified"
        /\ record.Type \notin {Null, Missing} => row.BusinessType = record.Type

\* the record has every key the loop subscripts
HasSubscriptedKeys(v, rec) ==
    /\ rec.StageName # Missing
    /\ rec.New_Business_or_Renewal__c # Missing
    /\ rec.CloseDate # Missing
    /\ v = "renewalOppUpdate" => rec.AccountId # Missing

\* the id of the owning manager of a record: the account's id in
\* renewalOppUpdate, the account's manager id in renewup; Null when the
\* account or the relationship is null or absent
OwnerOf(v, rec) ==
    IF v = "renewalOppUpdate" THEN rec.AccountId
    ELSE IF rec.Account \in {Null, Missing} THEN Null
    ELSE rec.Account_Manager__c

\* C23: the accountManager of a row is the display name of the owning
\* manager when the owner is in the manager lookup, and "Not Assigned" when
\* the owning relationship is null, the owning account is null or the owner
\* id is not in the lookup; none of these records raises.
C23_AccountManagerResolution ==
    /\ pc = "normalized" =>
        row.AccountManager =
            (IF OwnerOf(variant, record) \in DOMAIN ManagerLookup
             THEN ManagerLookup[OwnerOf(variant, record)]
             ELSE "Not Assigned")
    /\ HasSubscriptedKeys(variant, record) => pc # "raised"

(* --------------------------- runs in a session ------------------------ *)
\* a table is what this run's section computes from this run's inputs, or
\* is not there when this run did not render the section
FromThisRun(section, table, value) ==
    table = (IF section \in sections THEN value ELSE NoPivot)

\* the names this run's sections have assigned
NamesOfThisRun ==
    (IF "category" \in sections THEN {"category_pivot"} ELSE {})
    \cup (IF "lob" \in sections THEN {"lob_pivot"} ELSE {})
    \cup (IF "am" \in sections THEN {"am_pivot", "win_rate_df"} ELSE {})
    \cup (IF "core" \in sections /\ CoreRows(df) # EmptyBag
          THEN {"core_am_pivot", "core_win_rate_df"} ELSE {})
    \cup (IF "cat_win" \in sections THEN {"cat_win_pivot", "cat_win_filtered"} ELSE {})

\* C24: renders share no state: the normalized rows, the aggregation
\* results and the workload results of a run are determined by the records
\* it fetched, its date range and its view options, whatever runs came
\* before it in the session; nothing of an earlier run is left in a later
\* one.
C24_RunsShareNoState ==
    /\ \A r \in DOMAIN data :
        \E o \in QueryAll(date_range) : r = Normalize(variant, account_manager_map, o)
    /\ Len0(data) <= nrecords
    /\ Fetched => (df = data \/ (df = EmptyBag /\ Unrecovered))
    /\ bound = NamesOfThisRun
    /\ summary = IF "summary" \in sections
                 THEN [total_opps |-> Len0(df),
                       won_opps |-> Len0(Filter(df, {r \in DOMAIN df : r.StatusCategory = "Won"})),
                       lost_opps |-> Len0(Filter(df, {r \in DOMAIN df : r.StatusCategory = "Lost"})),
                       open_opps |-> Len0(Filter(df, {r \in DOMAIN df : r.StatusCategory = "Open"}))]
                 ELSE NoSummary
    /\ FromThisRun("category", category_pivot,
                   StatusPivot(df, "BusinessTypeCategory", VolumeColumns(show_percentages)))
    /\ FromThisRun("lob", lob_pivot,
                   StatusPivot(df, "BusinessType", VolumeColumns(show_percentages)))
    /\ FromThisRun("am", am_pivot,
                   StatusPivot(AccountManagerRows(variant, df), "AccountManager",
                               ManagerColumns(show_percentages)))
    /\ FromThisRun("am", win_rate_df, WinRateFilter(am_pivot, MinClosedAM))
    /\ df_core = (IF "core" \in sections THEN CoreRows(df) ELSE EmptyBag)
    /\ FromThisRun("core", core_am_pivot,
                   StatusPivot(CoreRows(df), "AccountManager",
                               ManagerColumns(show_percentages)))
    /\ FromThisRun("core", core_win_rate_df, WinRateFilter(core_am_pivot, MinClosedCore))
    /\ FromThisRun("cat_win", cat_win_filtered, WinRateFilter(cat_win_pivot, MinClosedCategory))
    /\ workload \in {NoWorkload} \cup WorkloadTables(CoreRows(df), date_range)
    /\ WorkloadBuilt => "workload" \in sections
    /\ monthly = (IF "monthly" \in sections
                  THEN [monthly_df |-> MonthlyCounts(df, "StatusCategory"),
                        monthly_cat_df |-> IF variant = "renewup"
                                           THEN MonthlyCounts(df, "BusinessTypeCategory")
                                           ELSE NoPivot]
                  ELSE NoMonthly)
    /\ "combined" \notin sections =>
        cross_tab = NoIndex /\ DOMAIN top \cap {"top_am", "top_lob"} = {}
    /\ "business_type" \in DOMAIN cross_tab =>
        cross_tab.business_type
            = CrossTab(CombinedRows(df, CombinedTop(index)), "AccountManager", "BusinessType")
    /\ DOMAIN index \subseteq NamesOfThisRun
    /\ \A t \in DOMAIN index : Range(index[t]) = DOMAIN Tables[t]

\* a later run that shows the line-of-business view only has ended
\* without any account-manager table
C24_Witness ==
    /\ rerun
    /\ pc = "done"
    /\ view_by = "Line of Business"
    /\ lob_pivot # NoPivot
    /\ am_pivot = NoPivot /\ "am_pivot" \notin bound

(* --------------------------- the date range ---------------------------- *)
\* the granularity the claim gives each predefined period
PeriodGranularity(time_period) ==
    IF time_period = "Last 7 Days" THEN "Day"
    ELSE IF time_period = "Last 30 Days" THEN "Week"
    ELSE "Month"

\* C25: with each of the four predefined periods the workload allocator
\* computes the span endDate - startDate without error and takes the
\* granularity day for Last 7 Days, week for Last 30 Days, month for Last
\* Quarter and month for Year to Date; no predefined period makes the
\* render raise.
C25_PredefinedPeriodsHaveGranularity ==
    \A time_period \in TimePeriods :
        date_range = PredefinedRange(time_period) =>
            /\ "TypeError" \notin failed
            /\ ("workload" \in sections /\ df_core # EmptyBag) =>
                workload.time_label = PeriodGranularity(time_period)

(* --------------------------- row conservation -------------------------- *)
\* the rows whose business type names a marine line
MarineRows(B) ==
    Filter(B, {r \in DOMAIN B :
                r.BusinessType \in {"Inland Marine CL", "Inland Marine PL", "Marine Package"}})

\* the rows fed to the account-manager pivot: all of them in renewup, all
\* but the marine ones in renewalOppUpdate
FedToManagers(v, B) ==
    IF v = "renewalOppUpdate" THEN Len0(B) - Len0(MarineRows(B)) ELSE Len0(B)

\* C26: in every pivot the Totals of the groups add up to the number of
\* rows fed to the aggregation: every fetched row for the business-type
\* and category pivots, every row but the marine ones for the
\* account-manager pivot of renewalOppUpdate; no row is dropped or counted
\* twice, a row of Unknown stage category included.
C26_RowConservation ==
    /\ "lob" \in sections =>
        SumColumn(lob_pivot, "Total", DOMAIN lob_pivot) = Len0(df)
    /\ "category" \in sections =>
        SumColumn(category_pivot, "Total", DOMAIN category_pivot) = Len0(df)
    /\ "am" \in sections =>
        SumColumn(am_pivot, "Total", DOMAIN am_pivot) = FedToManagers(variant, df)
    /\ "core_am_pivot" \in bound =>
        SumColumn(core_am_pivot, "Total", DOMAIN core_am_pivot) = Len0(df_core)

(* ------------------------- the custom date range ----------------------- *)
\* the date range came from the two date inputs
CustomPath == ~date_range.start_date.datetime /\ ~date_range.end_date.datetime

\* C27: on the custom path the start and end passed to the fetch and to
\* the workload allocator have startDate <= endDate: a start entered later
\* than the end is swapped with it and an error is shown, so the span used
\* for the granularity is never negative.
C27_CustomRangeOrdered ==
    (pc # "sidebar" /\ CustomPath) =>
        /\ date_range.start_date.ordinal <= date_range.end_date.ordinal
        /\ DateDiff(date_range) >= 0
        /\ \A r \in DOMAIN data :
            /\ date_range.start_date.ordinal <= CloseDay(r.CloseDate)
            /\ CloseDay(r.CloseDate) <= date_range.end_date.ordinal

\* a start entered after the end: the error is shown and the fetch, made
\* with the swapped range, has returned the row closed in between
C27_Witness ==
    /\ pc = "render"
    /\ "Start date must be before or equal to end date." \in messages
    /\ date_range.start_date.ordinal < date_range.end_date.ordinal
    /\ df # EmptyBag

(* --------------------------- the marine lines -------------------------- *)
\* the Total a pivot shows for a group, 0 for a group it does not have
TotalOf(pivot, g) == IF g \in DOMAIN pivot THEN pivot[g].Total ELSE 0

\* C28: in renewalOppUpdate the account-manager breakdown counts a row
\* exactly when its business type does not contain "Marine" (a row with a
\* null business type is kept), whereas the summary metrics and the
\* line-of-business breakdown count every fetched row; hence the
\* account-manager Totals add up to at most the summary's Total
\* Opportunities.
C28_MarineOnlyLeavesManagers ==
    variant = "renewalOppUpdate" =>
        /\ "am" \in sections =>
            /\ \A m \in {r.AccountManager : r \in DOMAIN df} :
                TotalOf(am_pivot, m) = Len0(OfManager(df, m)) - Len0(MarineRows(OfManager(df, m)))
            /\ \A m \in DOMAIN am_pivot : am_pivot[m].Total > 0
            /\ SumColumn(am_pivot, "Total", DOMAIN am_pivot) <= summary.total_opps
        /\ "summary" \in sections => summary.total_opps = Len0(df)
        /\ "lob" \in sections =>
            \A t \in {r.BusinessType : r \in DOMAIN df} :
                TotalOf(lob_pivot, t) = Len0(Filter(df, {r \in DOMAIN df : r.BusinessType = t}))

(* -------------------------- the combined heatmap ----------------------- *)
\* C29: in the combined-analysis heatmap of both scripts the lines of
\* business are the (up to) five business types with the largest Total,
\* the managers the (up to) five account managers with the largest Total,
\* and the heatmap counts exactly the rows whose manager and business type
\* are both among them.
C29_CombinedUsesTopFive ==
    "combined" \in sections =>
        /\ IsTopN(top.top_lob, lob_pivot, 5)
        /\ IsTopN(top.top_am, am_pivot, 5)
        /\ LET shown == IF "business_type" \in DOMAIN cross_tab
                        THEN cross_tab.business_type ELSE NoPivot
               cell(m, t) == IF <<m, t>> \in DOMAIN shown THEN shown[<<m, t>>] ELSE 0
           IN  /\ \A k \in DOMAIN shown :
                    k[1] \in Range(top.top_am) /\ k[2] \in Range(top.top_lob)
               /\ \A m \in Range(top.top_am), t \in Range(top.top_lob) :
                    cell(m, t) = Len0(Filter(df, {r \in DOMAIN df :
                                                   r.AccountManager = m /\ r.BusinessType = t}))

(* --------------------------- the fallback lookup ----------------------- *)
\* the first account/user lookup of renewalOppUpdate has failed
LookupFailed == variant = "renewalOppUpdate" /\ "lookup" \in failed

\* C30: in renewalOppUpdate, when the first account/user lookup fails a
\* warning is shown and the fallback account query runs before the
\* opportunity query; when the fallback succeeds the opportunities are
\* fetched and normalized against the fallback's manager map, and the
\* fetch ends with an empty result only if the fallback or the opportunity
\* query fails too (or the query answers with no record).
C30_FallbackLookup ==
    LookupFailed =>
        /\ "Error in queries" \in messages
        /\ pc \in {"query", "normalize"} => account_manager_map = ManagerLookup
        /\ pc = "fallback" => (account_manager_map = NoLookup /\ nrecords = 0)
        /\ \A r \in DOMAIN data : r.AccountManager \in Range(<<"A", "B">>)
        /\ (Fetched /\ df = EmptyBag) =>
            (failed \cap {"fallback", "query"} # {} \/ nrecords = 0)
        /\ (Fetched /\ failed \cap {"fallback", "query"} = {}) => Len0(df) = nrecords

====
